---- MODULE Spec2Model ----
(***************************************************************************)
(* Model of agentCore/chunking/chunk_processor.py: ChunkProcessor runs a   *)
(* caller-supplied transformation (processor_func) over a list of chunks   *)
(* sequentially, in a bounded thread pool, in streaming batches, or with   *)
(* retry rounds, and optionally aggregates the successful outputs.         *)
(*                                                                         *)
(* A Chunk object is identified by its position in the caller's list       *)
(* (1-based); chunks[p] is its id, so two chunk objects may share an id.   *)
(* processing_time_ms / total_processing_time_ms are wall-clock values and *)
(* are not modelled.                                                       *)
(*                                                                         *)
(* The thread pool is modelled at the granularity of one step per task     *)
(* start (a worker takes the oldest queued work item and calls             *)
(* processor_func) and one step per task end (processor_func returns or    *)
(* raises and the future is resolved).                                     *)
(*                                                                         *)
(* The second part models agentCore/chunking/text_chunker.py: TextChunker  *)
(* cuts a text into Chunks by fixed size, sentences, paragraphs, tokens, an *)
(* adaptive choice of these, or at context markers. Texts are sequences of *)
(* characters; the tokenizer (tiktoken) is modelled by what a byte-pair    *)
(* encoding does: tokens are byte strings, a token may hold two            *)
(* characters, a character of two bytes is two tokens, and decoding part   *)
(* of a character gives U+FFFD. Spec is the ChunkProcessor, SpecChunker    *)
(* the TextChunker.                                                        *)
(***************************************************************************)
EXTENDS Integers, Sequences, FiniteSets, TLC

\* ---- bounds of the model ------------------------------------------------
\* chunks per process_chunks_sequential / _parallel / _streaming call
MaxChunks == 3
\* chunks per process_with_retry call
MaxRetryChunks == 2
MaxWorkers == 2
MaxBatchSize == 2
MaxRetries == 2
MaxAggregations == 2
\* characters per text handed to the TextChunker
MaxTextLen == 4
\* TextChunker.chunk_size and TextChunker.overlap range over 0..Max
MaxChunkSize == 2
MaxOverlap == 1
\* markers per context_markers list
MaxMarkers == 2
\* documents: paragraphs of sentences of one word each
MaxParagraphs == 3
MaxSentences == 3
MaxWordLen == 40
MaxDocChunkSize == 5
MaxWindows == 30

\* ---- constants of the program ----------------------------------------------
\* TextChunker.__init__: chunk_size: int = 1000, overlap: int = 100
DefaultChunkSize == 1000
DefaultOverlap == 100
\* _analyze_text: len(paragraphs) < len(text) / 100 and len(sentences) > 5
CharsPerParagraph == 100
ClearSentences == 5

\* ---- values --------------------------------------------------------------
\* Python's None; contents and messages are tuples, so None is the empty one.
None == <<>>

\* The ChunkProcessingResult a call has not produced yet.
NoResult ==
  [processed_chunks |-> <<>>, successful_count |-> 0, failed_count |-> 0,
   aggregated_result |-> None, exists |-> FALSE]

\* Lists of chunks with pairwise distinct ids (the sequential, parallel and
\* streaming operations never read a chunk id): chunk p has id p.
DistinctLists == {[p \in 1..n |-> p] : n \in 0..MaxChunks}

\* Lists of chunk ids in which ids may repeat, up to renaming of the ids:
\* ids[p] <= 1 + max of the earlier ids.
RECURSIVE MaxOf(_)
MaxOf(s) == IF s = <<>> THEN 0
            ELSE LET m == MaxOf(Tail(s)) IN IF Head(s) > m THEN Head(s) ELSE m

RECURSIVE IdLists(_)
IdLists(n) ==
  IF n = 0 THEN {<<>>}
  ELSE {Append(s, id) : s \in IdLists(n - 1), id \in 1..n}

ChunkLists ==
  {s \in UNION {IdLists(n) : n \in 0..MaxRetryChunks} :
     \A p \in 1..Len(s) : s[p] <= 1 + MaxOf(SubSeq(s, 1, p - 1))}

VARIABLES
  max_workers,        \* self.max_workers
  pc,                 \* position of the calling thread
  mode,               \* which public operation is running
  chunks,             \* argument chunks: position -> chunk id
  failFirst,          \* processor_func: position -> number of first calls that raise
  returnsNone,        \* processor_func: positions of the chunks it returns None for
  progress_callback,  \* TRUE when a progress_callback was passed
  result_callback,    \* TRUE when a result_callback was passed (streaming)
  callback_raises,    \* result_callback: batch index of the call that raises (0: none)
  batch_size,         \* argument batch_size (streaming)
  max_retries,        \* argument max_retries (retry)
  loop_i,             \* i / batch_start / retry_attempt of the running loop
  processed_chunks,   \* local list processed_chunks / all_processed_chunks
  result,             \* the ChunkProcessingResult object (result in process_with_retry)
  cur,                \* chunks argument of the running process_chunks_parallel call
  submitted,          \* number of executor.submit calls made
  task,               \* work item index -> "new" | "queued" | "running" | "done"
  future,             \* work item index -> result of the future
  num_threads,        \* len(executor._threads)
  idle_semaphore,     \* executor._idle_semaphore
  finished,           \* as_completed: futures found finished when it was called
  finished_futures,   \* as_completed: waiter.finished_futures, in finishing order
  completed_results,  \* index -> ProcessedChunk collected so far
  completed_count,
  started,            \* history: position -> number of processor_func calls begun
  ended,              \* history: position -> number of processor_func calls ended
  completion,         \* history of a process_chunks_parallel call made by the caller
                      \* (where a progress_callback can observe it): its work items
                      \* in finishing order
  early,              \* history of the same call: how many work items had finished
                      \* when as_completed was entered
  progressLog,        \* history: arguments of the progress_callback calls
  batchLog,           \* history: arguments of the result_callback calls
  aggregations,       \* number of aggregate_results calls made
  aggregation_func,   \* argument aggregation_func of the last aggregate_results call
  raised,             \* TRUE when the last aggregate_results call raised to its caller
  chunk_size,         \* TextChunker: self.chunk_size
  overlap,            \* TextChunker: self.overlap
  chunker_pc,         \* position of the thread calling the TextChunker
  text,               \* argument text
  strategy,           \* argument strategy
  metadata,           \* argument metadata
  context_markers,    \* argument context_markers (chunk_with_context_preservation)
  start,              \* local start / start_token of the running while loop
  text_chunks,        \* local list chunks of the running strategy method
  chunking_result     \* the ChunkingResult returned

inputVars == <<max_workers, mode, chunks, failFirst, returnsNone,
               progress_callback, result_callback, callback_raises, batch_size,
               max_retries>>
poolVars == <<cur, submitted, task, future, num_threads, idle_semaphore,
              finished, finished_futures, completed_results, completed_count,
              completion, early>>
histVars == <<started, ended, progressLog, batchLog>>
aggVars == <<aggregations, aggregation_func, raised>>
chunkerVars == <<chunk_size, overlap, chunker_pc, text, strategy, metadata,
                 context_markers, start, text_chunks, chunking_result>>
vars == <<inputVars, pc, loop_i, processed_chunks, result, poolVars, histVars,
          aggVars, chunkerVars>>

\* ---- the transformation and the per-chunk wrapper ------------------------
\* The exception raised by the c-th call of processor_func on chunk p.
Exc(p, c) == <<"exc", p, c>>

\* str(e) of that exception.
Str(e) == <<"msg", e[2], e[3]>>

\* The value returned by the c-th call of processor_func on chunk p.
Out(p, c) == <<"out", p, c>>

\* processor_func(chunk): raises on the first failFirst[p] calls for chunk p;
\* afterwards it returns a value, which is None for the chunks of returnsNone.
processor_func(p, c) ==
  IF c <= failFirst[p] THEN [raises |-> TRUE, value |-> Exc(p, c)]
  ELSE [raises |-> FALSE, value |-> IF p \in returnsNone THEN None ELSE Out(p, c)]

\* Variant of process_single_chunk: the except branch records no message.
process_single_chunk_no_message(p, c) ==
  LET r == processor_func(p, c) IN
  IF ~r.raises
  THEN [original_chunk |-> p, processed_content |-> r.value,
        success |-> TRUE, error_message |-> None]
  ELSE [original_chunk |-> p, processed_content |-> None,
        success |-> FALSE, error_message |-> None]

\* try: result = processor_func(chunk) ... except Exception as e: ...
\* (an exception is an instance of Exception, which is what the code catches)
process_single_chunk(p, c) ==
  LET r == processor_func(p, c) IN
  IF ~r.raises
  THEN [original_chunk |-> p, processed_content |-> r.value,
        success |-> TRUE, error_message |-> None]
  ELSE [original_chunk |-> p, processed_content |-> None,
        success |-> FALSE, error_message |-> Str(r.value)]

\* sum(1 for pc in processed_chunks if pc.success)
RECURSIVE CountSuccess(_)
CountSuccess(pcs) ==
  IF pcs = <<>> THEN 0
  ELSE (IF Head(pcs).success THEN 1 ELSE 0) + CountSuccess(Tail(pcs))

\* sum(1 for pc in processed_chunks if not pc.success)
RECURSIVE CountFailed(_)
CountFailed(pcs) ==
  IF pcs = <<>> THEN 0
  ELSE (IF ~Head(pcs).success THEN 1 ELSE 0) + CountFailed(Tail(pcs))

\* ChunkProcessingResult(processed_chunks=..., successful_count=..., failed_count=...)
ChunkProcessingResult(pcs) ==
  [processed_chunks |-> pcs, successful_count |-> CountSuccess(pcs),
   failed_count |-> CountFailed(pcs), aggregated_result |-> None,
   exists |-> TRUE]

\* ---- initial state: a constructed ChunkProcessor, no call made yet -------
NoPool ==
  /\ cur = <<>>
  /\ submitted = 0
  /\ task = <<>>
  /\ future = <<>>
  /\ num_threads = 0
  /\ idle_semaphore = 0
  /\ finished = {}
  /\ finished_futures = <<>>
  /\ completed_results = <<>>
  /\ completed_count = 0
  /\ completion = <<>>
  /\ early = 0

\* TextChunker(): chunk_size and overlap have their default values and no
\* call has been made.
NoChunking == [exists |-> FALSE]

ChunkerIdle ==
  /\ chunker_pc = "idle"
  /\ text = <<>>
  /\ strategy = "none"
  /\ metadata = <<>>
  /\ context_markers = <<>>
  /\ start = 0
  /\ text_chunks = <<>>
  /\ chunking_result = NoChunking

DefaultChunker ==
  /\ chunk_size = DefaultChunkSize
  /\ overlap = DefaultOverlap
  /\ ChunkerIdle

ProcessorInit ==
  /\ max_workers \in 1..MaxWorkers
  /\ pc = "idle"
  /\ mode = "none"
  /\ chunks = <<>>
  /\ failFirst = <<>>
  /\ returnsNone = {}
  /\ progress_callback = FALSE
  /\ result_callback = FALSE
  /\ callback_raises = 0
  /\ batch_size = 1
  /\ max_retries = 0
  /\ loop_i = 0
  /\ processed_chunks = <<>>
  /\ result = NoResult
  /\ NoPool
  /\ started = <<>>
  /\ ended = <<>>
  /\ progressLog = <<>>
  /\ batchLog = <<>>
  /\ aggregations = 0
  /\ aggregation_func = "none"
  /\ raised = FALSE

Init == ProcessorInit /\ DefaultChunker

\* Arguments common to the four processing operations.
Arguments(m, cs, ff) ==
  /\ mode' = m
  /\ chunks' = cs
  /\ failFirst' = ff
  /\ started' = [p \in 1..Len(cs) |-> 0]
  /\ ended' = [p \in 1..Len(cs) |-> 0]
  /\ UNCHANGED <<max_workers, progressLog, batchLog, aggVars, result, chunkerVars>>

\* ---- process_chunks_sequential -------------------------------------------
SequentialCall ==
  /\ pc = "idle"
  /\ \E cs \in DistinctLists, cb \in BOOLEAN :
     \E ff \in [1..Len(cs) -> 0..1], rn \in SUBSET (1..Len(cs)) :
       /\ Arguments("sequential", cs, ff)
       /\ returnsNone' = rn
       /\ progress_callback' = cb
       /\ pc' = "seq_transform"
       /\ loop_i' = 0
       /\ processed_chunks' = <<>>
       /\ UNCHANGED <<result_callback, callback_raises, batch_size, max_retries,
                      poolVars>>

\* One loop iteration up to processed_chunks.append(processed_chunk).
SequentialTransform ==
  /\ pc = "seq_transform"
  /\ loop_i < Len(chunks)
  /\ LET p == loop_i + 1
         c == started[p] + 1 IN
       /\ started' = [started EXCEPT ![p] = c]
       /\ ended' = [ended EXCEPT ![p] = @ + 1]
       /\ processed_chunks' = Append(processed_chunks, process_single_chunk(p, c))
  /\ pc' = "seq_progress"
  /\ UNCHANGED <<inputVars, chunkerVars, loop_i, result, poolVars, progressLog, batchLog, aggVars>>

\* Variant of SequentialProgress: the callback is called on success only.
SequentialProgressOnSuccess ==
  /\ pc = "seq_progress"
  /\ progressLog' =
       IF progress_callback /\ processed_chunks[Len(processed_chunks)].success
       THEN Append(progressLog,
                   [count |-> loop_i + 1, total |-> Len(chunks),
                    chunk |-> processed_chunks[Len(processed_chunks)]])
       ELSE progressLog
  /\ loop_i' = loop_i + 1
  /\ pc' = "seq_transform"
  /\ UNCHANGED <<inputVars, chunkerVars, processed_chunks, result, poolVars, started, ended,
                 batchLog, aggVars>>

\* if progress_callback: progress_callback(i + 1, len(chunks), processed_chunk)
SequentialProgress ==
  /\ pc = "seq_progress"
  /\ progressLog' =
       IF progress_callback
       THEN Append(progressLog,
                   [count |-> loop_i + 1, total |-> Len(chunks),
                    chunk |-> processed_chunks[Len(processed_chunks)]])
       ELSE progressLog
  /\ loop_i' = loop_i + 1
  /\ pc' = "seq_transform"
  /\ UNCHANGED <<inputVars, chunkerVars, processed_chunks, result, poolVars, started, ended,
                 batchLog, aggVars>>

\* The loop is over: build and return the ChunkProcessingResult.
SequentialReturn ==
  /\ pc = "seq_transform"
  /\ loop_i = Len(chunks)
  /\ result' = ChunkProcessingResult(processed_chunks)
  /\ pc' = "done"
  /\ UNCHANGED <<inputVars, chunkerVars, loop_i, processed_chunks, poolVars, histVars, aggVars>>

\* ---- the thread pool of one process_chunks_parallel call -----------------
\* with ThreadPoolExecutor(max_workers=self.max_workers) as executor, entered
\* with the chunks argument cs (a list of chunk positions).
EnterPool(cs) ==
  /\ cur' = cs
  /\ submitted' = 0
  /\ task' = [j \in 1..Len(cs) |-> [state |-> "new", call |-> 0]]
  /\ future' = [j \in 1..Len(cs) |-> None]
  /\ num_threads' = 0
  /\ idle_semaphore' = 0
  /\ finished' = {}
  /\ finished_futures' = <<>>
  /\ completed_results' = <<>>
  /\ completed_count' = 0
  /\ completion' = <<>>
  /\ early' = 0
  /\ pc' = "submit"

\* Variant of PoolSize: a thread for every submitted chunk.
PoolSizePerChunk == Len(cur)

\* ThreadPoolExecutor(max_workers=self.max_workers): the size of the pool.
PoolSize == max_workers

\* The with block is left: the pool is shut down and the locals of the
\* process_chunks_parallel call are gone.
ExitPool ==
  /\ cur' = <<>>
  /\ submitted' = 0
  /\ task' = <<>>
  /\ future' = <<>>
  /\ num_threads' = 0
  /\ idle_semaphore' = 0
  /\ finished' = {}
  /\ finished_futures' = <<>>
  /\ completed_results' = <<>>
  /\ completed_count' = 0
  /\ completion' = <<>>
  /\ early' = 0

Running == {j \in 1..Len(cur) : task[j].state = "running"}
Queued == {j \in 1..Len(cur) : task[j].state = "queued"}

\* executor.submit(process_single_chunk, chunk_data): the work item is queued
\* and _adjust_thread_count starts a thread unless one is idle or the pool is full.
Submit ==
  /\ pc = "submit"
  /\ submitted < Len(cur)
  /\ submitted' = submitted + 1
  /\ task' = [task EXCEPT ![submitted + 1].state = "queued"]
  /\ IF idle_semaphore > 0
     THEN /\ idle_semaphore' = idle_semaphore - 1
          /\ num_threads' = num_threads
     ELSE /\ idle_semaphore' = idle_semaphore
          /\ num_threads' = IF num_threads < PoolSize
                            THEN num_threads + 1 ELSE num_threads
  /\ UNCHANGED <<inputVars, chunkerVars, pc, loop_i, processed_chunks, result, cur, future,
                 finished, finished_futures, completed_results, completed_count,
                 completion, early, histVars, aggVars>>

\* A free worker thread takes the oldest queued work item and calls
\* process_single_chunk, which calls processor_func(chunk).
WorkerStart ==
  /\ Queued # {}
  /\ Cardinality(Running) < num_threads
  /\ LET j == CHOOSE q \in Queued : \A r \in Queued : q <= r
         p == cur[j] IN
       /\ task' = [task EXCEPT ![j] = [state |-> "running", call |-> started[p] + 1]]
       /\ started' = [started EXCEPT ![p] = @ + 1]
  /\ UNCHANGED <<inputVars, chunkerVars, pc, loop_i, processed_chunks, result, cur, submitted,
                 future, num_threads, idle_semaphore, finished, finished_futures,
                 completed_results, completed_count, completion, early, ended,
                 progressLog, batchLog, aggVars>>

\* processor_func returns or raises in work item j; process_single_chunk
\* returns the ProcessedChunk, the future is resolved (and handed to the
\* as_completed waiter when one is installed) and the worker becomes idle.
WorkerFinish ==
  \E j \in Running :
    /\ task' = [task EXCEPT ![j].state = "done"]
    /\ future' = [future EXCEPT ![j] = process_single_chunk(cur[j], task[j].call)]
    /\ ended' = [ended EXCEPT ![cur[j]] = @ + 1]
    /\ completion' = IF mode = "parallel" THEN Append(completion, j) ELSE completion
    /\ finished_futures' = IF pc = "collect" THEN Append(finished_futures, j)
                           ELSE finished_futures
    /\ idle_semaphore' = idle_semaphore + 1
    /\ UNCHANGED <<inputVars, chunkerVars, pc, loop_i, processed_chunks, result, cur, submitted,
                   num_threads, finished, completed_results, completed_count,
                   early, started, progressLog, batchLog, aggVars>>

\* concurrent.futures.as_completed(future_to_index) is entered: the futures
\* already finished form a set, to be yielded first; a waiter is installed on
\* the others.
AsCompleted ==
  /\ pc = "submit"
  /\ submitted = Len(cur)
  /\ finished' = {j \in 1..Len(cur) : task[j].state = "done"}
  /\ finished_futures' = <<>>
  /\ early' = IF mode = "parallel" THEN Len(completion) ELSE early
  /\ pc' = "collect"
  /\ UNCHANGED <<inputVars, chunkerVars, loop_i, processed_chunks, result, cur, submitted, task,
                 future, num_threads, idle_semaphore, completed_results,
                 completed_count, completion, histVars, aggVars>>

\* Body of the as_completed loop for the yielded future of work item j.
CollectFuture(j) ==
  /\ completed_results' = (j :> future[j]) @@ completed_results
  /\ completed_count' = completed_count + 1
  /\ progressLog' =
       IF progress_callback
       THEN Append(progressLog,
                   [count |-> completed_count + 1, total |-> Len(cur),
                    chunk |-> future[j]])
       ELSE progressLog
  /\ UNCHANGED <<inputVars, chunkerVars, pc, loop_i, processed_chunks, result, cur, submitted,
                 task, future, num_threads, idle_semaphore, completion, early,
                 started, ended, batchLog, aggVars>>

\* Variant of PopIndex: the future that finished last is yielded first.
PopIndexLast(fs) == Len(fs)

\* Which of the futures handed to the waiter as_completed yields next: the one
\* that finished first ("reverse to keep finishing order").
PopIndex(fs) == 1

\* as_completed yields the next future: first the ones of the initial set, in
\* the iteration order of a set of objects, then the others as they finish.
Collect ==
  /\ pc = "collect"
  /\ IF finished # {}
     THEN \E j \in finished :
            /\ finished' = finished \ {j}
            /\ finished_futures' = finished_futures
            /\ CollectFuture(j)
     ELSE /\ finished_futures # <<>>
          /\ finished' = finished
          /\ LET k == PopIndex(finished_futures) IN
               /\ finished_futures' =
                    SubSeq(finished_futures, 1, k - 1)
                    \o SubSeq(finished_futures, k + 1, Len(finished_futures))
               /\ CollectFuture(finished_futures[k])

\* Every future was yielded and the pool is shut down.
PoolDone == pc = "collect" /\ completed_count = Len(cur)

\* Variant of PoolResult: in a call made by the caller, the results are listed
\* in the order the tasks finished.
PoolResultAsCompleted ==
  ChunkProcessingResult(
    [j \in 1..Len(cur) |->
       completed_results[IF mode = "parallel" THEN completion[j] ELSE j]])

\* processed_chunks = [completed_results[i] for i in range(len(chunks))] and
\* the ChunkProcessingResult built from it.
PoolResult ==
  ChunkProcessingResult([j \in 1..Len(cur) |-> completed_results[j]])

\* ---- process_chunks_parallel ---------------------------------------------
ParallelCall ==
  /\ pc = "idle"
  /\ \E cs \in DistinctLists, cb \in BOOLEAN :
     \E ff \in [1..Len(cs) -> 0..1] :
       /\ Arguments("parallel", cs, ff)
       /\ progress_callback' = cb
       /\ EnterPool([p \in 1..Len(cs) |-> p])
       /\ UNCHANGED <<returnsNone, result_callback, callback_raises, batch_size,
                      max_retries, loop_i, processed_chunks>>

ParallelReturn ==
  /\ mode = "parallel"
  /\ PoolDone
  /\ result' = PoolResult
  /\ processed_chunks' = PoolResult.processed_chunks
  /\ ExitPool
  /\ pc' = "done"
  /\ UNCHANGED <<inputVars, chunkerVars, loop_i, histVars, aggVars>>

\* ---- process_chunks_streaming --------------------------------------------
StreamingCall ==
  /\ pc = "idle"
  /\ \E cs \in DistinctLists, bs \in 1..MaxBatchSize, cb \in BOOLEAN :
     \E ff \in [1..Len(cs) -> 0..1],
        cr \in (IF cb THEN 0..((Len(cs) + bs - 1) \div bs) ELSE {0}) :
       /\ Arguments("streaming", cs, ff)
       /\ batch_size' = bs
       /\ result_callback' = cb
       /\ callback_raises' = cr
       /\ loop_i' = 0
       /\ processed_chunks' = <<>>
       /\ pc' = "stream_loop"
       /\ UNCHANGED <<returnsNone, progress_callback, max_retries, poolVars>>

\* Variant of Batch: only the first chunk of the batch.
BatchFirstOnly(batch_start) == <<batch_start + 1>>

\* batch = chunks[batch_start:batch_end], as chunk positions.
Batch(batch_start) ==
  LET batch_end == IF batch_start + batch_size < Len(chunks)
                   THEN batch_start + batch_size ELSE Len(chunks)
  IN [j \in 1..(batch_end - batch_start) |-> batch_start + j]

\* Variant of BatchIndex: the batch index starts at 0.
BatchIndexFromZero(batch_start) == batch_start \div batch_size

\* batch_start // batch_size + 1
BatchIndex(batch_start) == (batch_start \div batch_size) + 1

\* The next iteration of the batch loop calls process_chunks_parallel(batch).
StreamingBatch ==
  /\ pc = "stream_loop"
  /\ loop_i < Len(chunks)
  /\ EnterPool(Batch(loop_i))
  /\ UNCHANGED <<inputVars, chunkerVars, loop_i, processed_chunks, result, histVars, aggVars>>

\* Variant of result_callback_outcome: an exception of result_callback is
\* swallowed and the batch loop goes on.
result_callback_swallowed(k) == "stream_loop"

\* Where the caller is after "if result_callback: result_callback(batch_result, k)":
\* the call is in no try block, so an exception it raises leaves
\* process_chunks_streaming; otherwise the batch loop goes on.
result_callback_outcome(k) ==
  IF result_callback /\ callback_raises = k THEN "raised" ELSE "stream_loop"

\* process_chunks_parallel(batch) returns: extend all_processed_chunks and
\* call result_callback(batch_result, batch_start // batch_size + 1).
StreamingBatchReturn ==
  /\ mode = "streaming"
  /\ PoolDone
  /\ processed_chunks' = processed_chunks \o PoolResult.processed_chunks
  /\ batchLog' =
       IF result_callback
       THEN Append(batchLog, [batch_result |-> PoolResult,
                              index |-> BatchIndex(loop_i)])
       ELSE batchLog
  /\ loop_i' = loop_i + batch_size
  /\ ExitPool
  /\ pc' = result_callback_outcome(BatchIndex(loop_i))
  /\ UNCHANGED <<inputVars, chunkerVars, result, started, ended, progressLog, aggVars>>

StreamingReturn ==
  /\ pc = "stream_loop"
  /\ loop_i >= Len(chunks)
  /\ result' = ChunkProcessingResult(processed_chunks)
  /\ pc' = "done"
  /\ UNCHANGED <<inputVars, chunkerVars, loop_i, processed_chunks, poolVars, histVars, aggVars>>

\* ---- process_with_retry --------------------------------------------------
RetryCall ==
  /\ pc = "idle"
  /\ \E cs \in ChunkLists, mr \in 0..MaxRetries :
     \E ff \in [1..Len(cs) -> 0..(mr + 1)] :
       /\ Arguments("retry", cs, ff)
       /\ max_retries' = mr
       /\ loop_i' = 0
       /\ EnterPool([p \in 1..Len(cs) |-> p])
       /\ UNCHANGED <<returnsNone, progress_callback, result_callback,
                      callback_raises, batch_size, processed_chunks>>

\* result = self.process_chunks_parallel(chunks, processor_func)
RetryInitialReturn ==
  /\ mode = "retry"
  /\ PoolDone
  /\ ~result.exists
  /\ result' = PoolResult
  /\ ExitPool
  /\ pc' = "retry_loop"
  /\ UNCHANGED <<inputVars, chunkerVars, loop_i, processed_chunks, histVars, aggVars>>

\* [pc.original_chunk for pc in result.processed_chunks if not pc.success]
RECURSIVE FailedChunks(_)
FailedChunks(pcs) ==
  IF pcs = <<>> THEN <<>>
  ELSE (IF ~Head(pcs).success THEN <<Head(pcs).original_chunk>> ELSE <<>>)
       \o FailedChunks(Tail(pcs))

\* One more round: rerun process_chunks_parallel on the failed chunks
\* (time.sleep(retry_delay) only delays the caller).
RetryRound ==
  /\ pc = "retry_loop"
  /\ loop_i < max_retries
  /\ FailedChunks(result.processed_chunks) # <<>>
  /\ EnterPool(FailedChunks(result.processed_chunks))
  /\ UNCHANGED <<inputVars, chunkerVars, loop_i, processed_chunks, result, histVars, aggVars>>

\* retry_dict = {pc.original_chunk.id: pc for pc in retry_result.processed_chunks}:
\* the keys, and the entry a key maps to (a later entry replaces an earlier one).
RetryKeys(pcs) == {chunks[pcs[k].original_chunk] : k \in 1..Len(pcs)}

RetryDict(pcs, id) ==
  LET ks == {k \in 1..Len(pcs) : chunks[pcs[k].original_chunk] = id}
  IN pcs[CHOOSE k \in ks : \A l \in ks : l <= k]

\* Variant of Splice: the test on pc.success is inverted.
SpliceInverted(pcs, retried) ==
  [i \in 1..Len(pcs) |->
     IF pcs[i].success /\ chunks[pcs[i].original_chunk] \in RetryKeys(retried)
     THEN RetryDict(retried, chunks[pcs[i].original_chunk])
     ELSE pcs[i]]

\* for i, pc in enumerate(result.processed_chunks):
\*     if not pc.success and pc.original_chunk.id in retry_dict: replace it
Splice(pcs, retried) ==
  [i \in 1..Len(pcs) |->
     IF ~pcs[i].success /\ chunks[pcs[i].original_chunk] \in RetryKeys(retried)
     THEN RetryDict(retried, chunks[pcs[i].original_chunk])
     ELSE pcs[i]]

\* Variant of UpdateCounts: the counts of the initial run are kept.
UpdateCountsKept(res) == res

\* result.successful_count = sum(...); result.failed_count = sum(...)
UpdateCounts(res) ==
  [res EXCEPT !.successful_count = CountSuccess(res.processed_chunks),
              !.failed_count = CountFailed(res.processed_chunks)]

\* The retry round returns: splice its entries into result and recount.
RetryRoundReturn ==
  /\ mode = "retry"
  /\ PoolDone
  /\ result.exists
  /\ LET spliced == Splice(result.processed_chunks, PoolResult.processed_chunks)
     IN result' = UpdateCounts([result EXCEPT !.processed_chunks = spliced])
  /\ loop_i' = loop_i + 1
  /\ ExitPool
  /\ pc' = "retry_loop"
  /\ UNCHANGED <<inputVars, chunkerVars, processed_chunks, histVars, aggVars>>

\* The retry loop ends (range exhausted, or break on no failed chunk).
RetryReturn ==
  /\ pc = "retry_loop"
  /\ \/ loop_i >= max_retries
     \/ FailedChunks(result.processed_chunks) = <<>>
  /\ pc' = "done"
  /\ UNCHANGED <<inputVars, chunkerVars, loop_i, processed_chunks, result, poolVars, histVars,
                 aggVars>>

\* ---- aggregate_results ---------------------------------------------------
\* Aggregation functions a caller may pass: two that return a value made of
\* their argument, and one that raises.
AggregationFuncs == {"join", "count", "raise"}

CallAggregation(f, xs) ==
  IF f = "raise" THEN [raises |-> TRUE, value |-> <<"exc", f>>]
  ELSE [raises |-> FALSE, value |-> <<f, xs>>]

\* [pc.processed_content for pc in processing_result.processed_chunks
\*  if pc.success and pc.processed_content is not None]
RECURSIVE SuccessfulResults(_)
SuccessfulResults(pcs) ==
  IF pcs = <<>> THEN <<>>
  ELSE (IF Head(pcs).success /\ Head(pcs).processed_content # None
        THEN <<Head(pcs).processed_content>> ELSE <<>>)
       \o SuccessfulResults(Tail(pcs))

\* Variant of aggregate_results: a failed aggregation clears aggregated_result.
aggregate_results_clearing(processing_result, f) ==
  LET successful_results == SuccessfulResults(processing_result.processed_chunks)
      r == CallAggregation(f, successful_results)
  IN IF successful_results # <<>>
     THEN IF ~r.raises
          THEN [result |-> [processing_result EXCEPT !.aggregated_result = r.value],
                raised |-> FALSE]
          ELSE [result |-> [processing_result EXCEPT !.aggregated_result = None],
                raised |-> FALSE]
     ELSE [result |-> processing_result, raised |-> FALSE]

\* aggregate_results(processing_result, aggregation_func): the result object
\* after the call and whether an exception left the call.
aggregate_results(processing_result, f) ==
  LET successful_results == SuccessfulResults(processing_result.processed_chunks)
      r == CallAggregation(f, successful_results)
  IN IF successful_results # <<>>
     THEN IF ~r.raises
          THEN [result |-> [processing_result EXCEPT !.aggregated_result = r.value],
                raised |-> FALSE]
          ELSE [result |-> processing_result, raised |-> FALSE]
     ELSE [result |-> processing_result, raised |-> FALSE]

\* The caller aggregates the result a processing operation returned.
Aggregate ==
  /\ pc = "done"
  /\ aggregations < MaxAggregations
  /\ \E f \in AggregationFuncs :
       /\ aggregation_func' = f
       /\ result' = aggregate_results(result, f).result
       /\ raised' = aggregate_results(result, f).raised
  /\ aggregations' = aggregations + 1
  /\ UNCHANGED <<inputVars, chunkerVars, pc, loop_i, processed_chunks, poolVars, histVars>>

\* ==== agentCore/chunking/text_chunker.py ===================================
\* A text is a sequence of characters (a str); indexes of the program are
\* 0-based, those of the sequences 1-based.

\* ---- characters and str operations --------------------------------------
\* A letter, the two whitespace characters blank and newline, the sentence
\* terminator (any of . ! ?), a character whose UTF-8 encoding has two bytes,
\* and U+FFFD, which bytes.decode(errors="replace") puts for a broken sequence.
Letter == "a"
Blank == " "
Newline == "\n"
Period == "."
Accented == "e'"
Replacement == "U+FFFD"

\* str.isspace() of one character
IsSpace(c) == c \in {Blank, Newline}

\* the character class [.!?]
IsTerminator(c) == c = Period

Min(a, b) == IF a < b THEN a ELSE b
Max(a, b) == IF a > b THEN a ELSE b

\* s[a:b] for 0 <= a and 0 <= b
Slice(s, a, b) == SubSeq(s, a + 1, Min(b, Len(s)))

RECURSIVE LStrip(_)
LStrip(s) ==
  IF s # <<>> /\ IsSpace(Head(s)) THEN LStrip(Tail(s)) ELSE s

RECURSIVE RStrip(_)
RStrip(s) ==
  IF s # <<>> /\ IsSpace(s[Len(s)]) THEN RStrip(SubSeq(s, 1, Len(s) - 1)) ELSE s

\* s.strip()
Strip(s) == LStrip(RStrip(s))

\* text.rfind(' ', a, b): the highest index in [a, b) holding a blank, or -1
RFind(s, a, b) ==
  LET found == {i \in a..(Min(b, Len(s)) - 1) : s[i + 1] = Blank}
  IN IF found = {} THEN -1 ELSE CHOOSE i \in found : \A j \in found : j <= i

\* The index (1-based) of the first character at or after i that is not
\* whitespace, or Len(s) + 1.
RECURSIVE SkipSpace(_, _)
SkipSpace(s, i) ==
  IF i <= Len(s) /\ IsSpace(s[i]) THEN SkipSpace(s, i + 1) ELSE i

\* The least element of a non-empty set of integers
Least(S) == CHOOSE i \in S : \A j \in S : i <= j

\* re.split(r'(?<=[.!?])\s+', s): s is cut at every run of whitespace that
\* follows a terminator; the runs are dropped. The pieces of s from index i
\* (1-based) on, i being the index after the last match.
RECURSIVE SplitAfterTerminator(_, _)
SplitAfterTerminator(s, i) ==
  LET matches == {j \in i..Len(s) : IsSpace(s[j]) /\ j > 1 /\ IsTerminator(s[j - 1])}
  IN IF matches = {} THEN <<SubSeq(s, i, Len(s))>>
     ELSE <<SubSeq(s, i, Least(matches) - 1)>>
          \o SplitAfterTerminator(s, SkipSpace(s, Least(matches)))

\* re.split(r'\n\s*\n', s): a match starts at a newline and runs, through
\* whitespace only, to the last newline of that whitespace run.
ParagraphBreakEnd(s, i) ==
  LET ends == {j \in (i + 1)..(SkipSpace(s, i) - 1) : s[j] = Newline}
  IN IF s[i] # Newline \/ ends = {} THEN 0
     ELSE CHOOSE j \in ends : \A k \in ends : k <= j

RECURSIVE SplitParagraphs(_, _)
SplitParagraphs(s, i) ==
  LET matches == {j \in i..Len(s) : ParagraphBreakEnd(s, j) > 0}
  IN IF matches = {} THEN <<SubSeq(s, i, Len(s))>>
     ELSE <<SubSeq(s, i, Least(matches) - 1)>>
          \o SplitParagraphs(s, ParagraphBreakEnd(s, Least(matches)) + 1)

\* re.split(r'[.!?]+', s): s is cut at every run of terminators.
RECURSIVE SkipTerminators(_, _)
SkipTerminators(s, i) ==
  IF i <= Len(s) /\ IsTerminator(s[i]) THEN SkipTerminators(s, i + 1) ELSE i

RECURSIVE SplitAtTerminators(_, _)
SplitAtTerminators(s, i) ==
  LET matches == {j \in i..Len(s) : IsTerminator(s[j])}
  IN IF matches = {} THEN <<SubSeq(s, i, Len(s))>>
     ELSE <<SubSeq(s, i, Least(matches) - 1)>>
          \o SplitAtTerminators(s, SkipTerminators(s, Least(matches)))

\* ---- the tokenizer (tiktoken byte-pair encoding) -------------------------
\* A token is a non-empty sequence of bytes. The bytes of an ASCII character
\* are the character itself; Accented has the two bytes LeadByte, ContByte.
LeadByte == "0xC3"
ContByte == "0xA9"

\* tokenizer.encode(s): the bytes of s cut into tokens. A blank and the
\* letter after it share a token; the two bytes of the accented character are
\* a token each; every other character is a token of its own. The tokens of s
\* are those of its two halves, the halves being cut where no token spans.
RECURSIVE Encode(_)
Encode(s) ==
  IF s = <<>> THEN <<>>
  ELSE IF s = <<Accented>> THEN <<(<<LeadByte>>), (<<ContByte>>)>>
  ELSE IF Len(s) = 1 \/ s = <<Blank, Letter>> THEN <<s>>
  ELSE LET half == Len(s) \div 2
           cut == IF s[half] = Blank /\ s[half + 1] = Letter
                  THEN half + 1 ELSE half
       IN Encode(SubSeq(s, 1, cut)) \o Encode(SubSeq(s, cut + 1, Len(s)))

\* the bytes of a list of tokens
RECURSIVE Flatten(_)
Flatten(ts) ==
  IF ts = <<>> THEN <<>>
  ELSE IF Len(ts) = 1 THEN ts[1]
  ELSE Flatten(SubSeq(ts, 1, Len(ts) \div 2))
       \o Flatten(SubSeq(ts, Len(ts) \div 2 + 1, Len(ts)))

\* bytes.decode("utf-8", errors="replace"): a lead byte followed by its
\* continuation byte is the accented character; a lead byte or a continuation
\* byte standing alone is replaced by U+FFFD. The characters of bs are those
\* of its two halves, the halves being cut between two characters.
RECURSIVE DecodeUtf8(_)
DecodeUtf8(bs) ==
  IF bs = <<>> THEN <<>>
  ELSE IF bs = <<LeadByte, ContByte>> THEN <<Accented>>
  ELSE IF Len(bs) = 1
       THEN IF bs[1] \in {LeadByte, ContByte} THEN <<Replacement>> ELSE bs
  ELSE LET half == Len(bs) \div 2
           cut == IF bs[half] = LeadByte /\ bs[half + 1] = ContByte
                  THEN half + 1 ELSE half
       IN DecodeUtf8(SubSeq(bs, 1, cut)) \o DecodeUtf8(SubSeq(bs, cut + 1, Len(bs)))

\* tokenizer.decode(ts)
Decode(ts) == DecodeUtf8(Flatten(ts))

\* ---- Chunk and ChunkingResult ----------------------------------------------
\* {**metadata, **extra}: the keys of extra replace equal keys of metadata.
Merge(md, extra) == extra @@ md

\* A Chunk; token_count = len(self.tokenizer.encode(counted)).
Chunk(id, content, start_index, end_index, md, token_count, overlap_with_previous) ==
  [id |-> id, content |-> content, start_index |-> start_index,
   end_index |-> end_index, metadata |-> md, token_count |-> token_count,
   overlap_with_previous |-> overlap_with_previous]

\* sum(chunk.token_count for chunk in chunks if chunk.token_count)
RECURSIVE TotalTokens(_)
TotalTokens(cs) ==
  IF cs = <<>> THEN 0
  ELSE IF Len(cs) = 1 THEN cs[1].token_count
  ELSE TotalTokens(SubSeq(cs, 1, Len(cs) \div 2))
       + TotalTokens(SubSeq(cs, Len(cs) \div 2 + 1, Len(cs)))

\* chunk_text: strategy_used=strategy, the strategy the caller asked for.
StrategyUsed(requested, chosen) == requested

\* The ChunkingResult chunk_text builds from the list a strategy method returned.
ChunkingResult(cs, requested, chosen, txt, md) ==
  [chunks |-> cs, total_chunks |-> Len(cs),
   strategy_used |-> StrategyUsed(requested, chosen),
   original_length |-> Len(txt), total_tokens |-> TotalTokens(cs),
   metadata |-> md, exists |-> TRUE]

\* ---- _chunk_fixed_size: one iteration of the while loop ---------------------
\* Variant of FixedSizeEnd: the end is never moved back to a blank.
FixedSizeEndAtBoundary(st) == Min(st + chunk_size, Len(text))

\* end of the window that starts at st: start + chunk_size cut to the text,
\* then moved back to the last blank of the window when it would cut a word.
FixedSizeEnd(st) ==
  LET end == Min(st + chunk_size, Len(text))
      last_space == RFind(text, st, end)
  IN IF end < Len(text) /\ ~IsSpace(text[end + 1]) /\ last_space > st
     THEN last_space ELSE end

FixedSizeChunk(st, chunk_id, md) ==
  LET end == FixedSizeEnd(st)
      chunk_content == Slice(text, st, end)
  IN Chunk(<<"chunk", chunk_id>>, chunk_content, st, end,
           Merge(md, [chunk_method |-> "fixed_size"]),
           Len(Encode(chunk_content)), st > 0 /\ overlap > 0)

\* start = max(end - self.overlap, start + 1)
FixedSizeNextStart(st) == Max(FixedSizeEnd(st) - overlap, st + 1)

\* ---- _chunk_by_sentence -----------------------------------------------------
\* Variant of SentenceChunk: the content is cut to chunk_size characters.
SentenceChunkTruncated(current_chunk, start_index, chunk_id, md) ==
  Chunk(<<"sentence_chunk", chunk_id>>,
        Strip(Slice(current_chunk, 0, chunk_size)), start_index,
        start_index + Len(current_chunk),
        Merge(md, [chunk_method |-> "sentence"]),
        Len(Encode(current_chunk)), FALSE)

SentenceChunk(current_chunk, start_index, chunk_id, md) ==
  Chunk(<<"sentence_chunk", chunk_id>>, Strip(current_chunk), start_index,
        start_index + Len(current_chunk),
        Merge(md, [chunk_method |-> "sentence"]),
        Len(Encode(current_chunk)), FALSE)

\* The for loop over the sentences from sentence k on, and the final chunk.
RECURSIVE SentenceLoop(_, _, _, _, _, _)
SentenceLoop(sentences, k, current_chunk, start_index, cs, md) ==
  IF k > Len(sentences)
  THEN IF current_chunk # <<>>
       THEN Append(cs, SentenceChunk(current_chunk, start_index, Len(cs), md))
       ELSE cs
  ELSE LET sentence == sentences[k]
           potential_chunk == IF current_chunk # <<>>
                              THEN current_chunk \o <<Blank>> \o sentence
                              ELSE sentence
       IN IF Len(potential_chunk) > chunk_size /\ current_chunk # <<>>
          THEN SentenceLoop(sentences, k + 1, sentence,
                            start_index + Len(current_chunk),
                            Append(cs, SentenceChunk(current_chunk, start_index,
                                                     Len(cs), md)),
                            md)
          ELSE SentenceLoop(sentences, k + 1, potential_chunk, start_index, cs, md)

\* Variant of chunk_by_sentence: the final chunk is added without the test
\* "if current_chunk".
chunk_by_sentence_final_always(txt, md) ==
  LET cs == SentenceLoop(SplitAfterTerminator(txt, 1), 1, <<>>, 0, <<>>, md)
  IN IF txt = <<>> THEN Append(cs, SentenceChunk(<<>>, 0, Len(cs), md)) ELSE cs

\* _chunk_by_sentence(text, metadata)
chunk_by_sentence(txt, md) ==
  SentenceLoop(SplitAfterTerminator(txt, 1), 1, <<>>, 0, <<>>, md)

\* ---- _chunk_by_paragraph ----------------------------------------------------
\* Variant of ParagraphSubChunks: the ids have no suffix _<i>.
ParagraphSubChunksUnsuffixed(para_chunks, chunk_id, current_index) ==
  [i \in 1..Len(para_chunks) |->
     [para_chunks[i] EXCEPT !.id = <<"para_chunk", chunk_id>>,
                            !.start_index = @ + current_index,
                            !.end_index = @ + current_index]]

\* The sub-chunks of a large paragraph: ids para_chunk_<chunk_id>_<i> and the
\* indexes moved by current_index.
ParagraphSubChunks(para_chunks, chunk_id, current_index) ==
  [i \in 1..Len(para_chunks) |->
     [para_chunks[i] EXCEPT !.id = <<"para_chunk", chunk_id, i - 1>>,
                            !.start_index = @ + current_index,
                            !.end_index = @ + current_index]]

\* The for loop over the paragraphs from paragraph k on.
RECURSIVE ParagraphLoop(_, _, _, _, _, _)
ParagraphLoop(paragraphs, k, chunk_id, current_index, cs, md) ==
  IF k > Len(paragraphs) THEN cs
  ELSE LET paragraph == Strip(paragraphs[k]) IN
       IF paragraph = <<>>
       THEN ParagraphLoop(paragraphs, k + 1, chunk_id, current_index, cs, md)
       ELSE IF Len(paragraph) <= chunk_size
            THEN ParagraphLoop(
                   paragraphs, k + 1, chunk_id + 1,
                   current_index + Len(paragraph) + 2,
                   Append(cs, Chunk(<<"para_chunk", chunk_id>>, paragraph,
                                    current_index, current_index + Len(paragraph),
                                    Merge(md, [chunk_method |-> "paragraph",
                                               is_complete_paragraph |-> TRUE]),
                                    Len(Encode(paragraph)), FALSE)),
                   md)
            ELSE LET para_chunks ==
                       chunk_by_sentence(paragraph,
                                         Merge(md, [large_paragraph |-> TRUE]))
                 IN ParagraphLoop(
                      paragraphs, k + 1, chunk_id + Len(para_chunks),
                      current_index + Len(paragraph) + 2,
                      cs \o ParagraphSubChunks(para_chunks, chunk_id, current_index),
                      md)

chunk_by_paragraph(txt, md) ==
  ParagraphLoop(SplitParagraphs(txt, 1), 1, 0, 0, <<>>, md)

\* ---- _chunk_by_tokens: one iteration of the while loop ----------------------
TokenEnd(tokens, start_token) == Min(start_token + chunk_size, Len(tokens))

TokenChunk(tokens, start_token, chunk_id, md) ==
  LET end_token == TokenEnd(tokens, start_token)
      chunk_tokens == Slice(tokens, start_token, end_token)
  IN Chunk(<<"token_chunk", chunk_id>>, Decode(chunk_tokens),
           Len(Decode(Slice(tokens, 0, start_token))),
           Len(Decode(Slice(tokens, 0, end_token))),
           Merge(md, [chunk_method |-> "token_based"]),
           Len(chunk_tokens), start_token > 0 /\ overlap > 0)

\* A next start with the whole overlap taken, not capped at half the window.
TokenNextStartUncapped(tokens, start_token) ==
  LET end_token == TokenEnd(tokens, start_token)
  IN end_token - Min(overlap, end_token - start_token)

\* overlap_tokens = min(self.overlap, len(chunk_tokens) // 2)
\* start_token = end_token - overlap_tokens
TokenNextStart(tokens, start_token) ==
  LET end_token == TokenEnd(tokens, start_token)
  IN end_token - Min(overlap, (end_token - start_token) \div 2)

\* The list _chunk_by_tokens returns: the windows from start_token on, after
\* the chunks cs.
RECURSIVE chunk_by_tokens(_, _, _, _)
chunk_by_tokens(tokens, start_token, cs, md) ==
  IF start_token >= Len(tokens) THEN cs
  ELSE chunk_by_tokens(tokens, TokenNextStart(tokens, start_token),
                       Append(cs, TokenChunk(tokens, start_token, Len(cs), md)),
                       md)

\* ---- _analyze_text and _chunk_adaptive --------------------------------------
\* [p.strip() for p in pieces if p.strip()]
RECURSIVE StrippedNonEmpty(_)
StrippedNonEmpty(pieces) ==
  IF pieces = <<>> THEN <<>>
  ELSE (IF Strip(Head(pieces)) # <<>> THEN <<Strip(Head(pieces))>> ELSE <<>>)
       \o StrippedNonEmpty(Tail(pieces))

\* sum(len(p) for p in pieces)
RECURSIVE SumLen(_)
SumLen(pieces) ==
  IF pieces = <<>> THEN 0 ELSE Len(Head(pieces)) + SumLen(Tail(pieces))

AnalysisParagraphs(txt) == StrippedNonEmpty(SplitParagraphs(txt, 1))
AnalysisSentences(txt) == StrippedNonEmpty(SplitAtTerminators(txt, 1))

\* len(paragraphs) > 1 and len(paragraphs) < len(text) / 100
HasClearParagraphs(txt) ==
  /\ Len(AnalysisParagraphs(txt)) > 1
  /\ Len(AnalysisParagraphs(txt)) * CharsPerParagraph < Len(txt)

\* len(sentences) > 5
HasClearSentences(txt) == Len(AnalysisSentences(txt)) > ClearSentences

\* avg_paragraph_length < self.chunk_size * 1.5, the average being
\* sum / len when there are paragraphs and 0 otherwise
ParagraphsShort(txt) ==
  LET ps == AnalysisParagraphs(txt)
  IN IF ps = <<>> THEN 0 < 3 * chunk_size
     ELSE 2 * SumLen(ps) < 3 * chunk_size * Len(ps)

\* avg_sentence_length < self.chunk_size / 2
SentencesShort(txt) ==
  LET ss == AnalysisSentences(txt)
  IN IF ss = <<>> THEN 0 < chunk_size
     ELSE 2 * SumLen(ss) < chunk_size * Len(ss)

\* Variant of AdaptiveChoice: the sentence rule is tried before the
\* paragraph rule.
AdaptiveChoiceSentenceFirst(txt) ==
  IF HasClearSentences(txt) /\ SentencesShort(txt) THEN "sentence"
  ELSE IF HasClearParagraphs(txt) /\ ParagraphsShort(txt) THEN "paragraph"
  ELSE "token_based"

\* the method _chunk_adaptive hands the text to
AdaptiveChoice(txt) ==
  IF HasClearParagraphs(txt) /\ ParagraphsShort(txt) THEN "paragraph"
  ELSE IF HasClearSentences(txt) /\ SentencesShort(txt) THEN "sentence"
  ELSE "token_based"

\* ---- chunk_text: the dispatch on strategy -----------------------------------
Strategies ==
  {"fixed_size", "sentence", "paragraph", "semantic", "adaptive", "token_based"}

\* The strategy method chunk_text runs (the else branch is _chunk_fixed_size).
Method(st, txt) ==
  IF st \in {"sentence", "paragraph", "token_based"} THEN st
  ELSE IF st = "adaptive" THEN AdaptiveChoice(txt)
  ELSE "fixed_size"

\* The metadata argument that method receives: metadata or {}, to which
\* _chunk_adaptive adds adaptive_choice.
MethodMetadata(st, txt, md) ==
  IF st = "adaptive" THEN Merge(md, [adaptive_choice |-> AdaptiveChoice(txt)])
  ELSE md

\* ---- chunk_with_context_preservation ----------------------------------------
\* re.finditer(re.escape(marker), text, re.IGNORECASE) from index i on: the
\* matches, left to right and not overlapping (the texts and markers
\* considered hold no character in two cases, so folding case changes nothing).
RECURSIVE MarkerMatches(_, _, _)
MarkerMatches(marker, txt, i) ==
  IF i + Len(marker) > Len(txt) THEN <<>>
  ELSE IF Slice(txt, i, i + Len(marker)) = marker
       THEN <<[start |-> i, end |-> i + Len(marker), marker |-> marker]>>
            \o MarkerMatches(marker, txt, i + Len(marker))
       ELSE MarkerMatches(marker, txt, i + 1)

RECURSIVE AllMatches(_, _)
AllMatches(markers, txt) ==
  IF markers = <<>> THEN <<>>
  ELSE MarkerMatches(Head(markers), txt, 0) \o AllMatches(Tail(markers), txt)

\* Tuple order of (start, end, marker): two matches with the same start and
\* end cover the same characters and so have the same marker.
MatchBefore(a, b) ==
  a.start < b.start \/ (a.start = b.start /\ a.end < b.end)

RECURSIVE InsertMatch(_, _)
InsertMatch(m, sorted) ==
  IF sorted = <<>> THEN <<m>>
  ELSE IF MatchBefore(Head(sorted), m)
       THEN <<Head(sorted)>> \o InsertMatch(m, Tail(sorted))
       ELSE <<m>> \o sorted

\* marker_positions.sort()
RECURSIVE SortMatches(_)
SortMatches(ms) ==
  IF ms = <<>> THEN <<>> ELSE InsertMatch(Head(ms), SortMatches(Tail(ms)))

MarkerPositions(markers, txt) == SortMatches(AllMatches(markers, txt))

ContextChunk(content, start_index, end_index, chunk_id, md) ==
  Chunk(<<"context_chunk", chunk_id>>, content, start_index, end_index,
        Merge([chunk_method |-> "context_preserved"], md),
        Len(Encode(content)), FALSE)

\* The for loop over marker_positions from entry i on, then the remaining text.
RECURSIVE ContextLoop(_, _, _, _, _)
ContextLoop(txt, mp, i, current_pos, cs) ==
  IF i > Len(mp)
  THEN IF current_pos < Len(txt) /\ Strip(Slice(txt, current_pos, Len(txt))) # <<>>
       THEN Append(cs, ContextChunk(Strip(Slice(txt, current_pos, Len(txt))),
                                    current_pos, Len(txt), Len(cs),
                                    [final_chunk |-> TRUE]))
       ELSE cs
  ELSE LET start_pos == mp[i].start
           end_pos == mp[i].end
           content == Strip(Slice(txt, current_pos, start_pos))
           before == IF start_pos > current_pos /\ content # <<>>
                     THEN Append(cs, ContextChunk(content, current_pos, start_pos,
                                                  Len(cs),
                                                  [before_marker |-> mp[i].marker]))
                     ELSE cs
           next_marker_pos == IF i + 1 <= Len(mp) THEN mp[i + 1].start ELSE Len(txt)
           marker_content_end == Min(end_pos + chunk_size, next_marker_pos)
           marker_content == Slice(txt, start_pos, marker_content_end)
       IN ContextLoop(txt, mp, i + 1, marker_content_end,
                      Append(before,
                             ContextChunk(marker_content, start_pos,
                                          marker_content_end, Len(before),
                                          [contains_marker |-> mp[i].marker])))

\* ---- inputs of the TextChunker operations ----------------------------------
SeqsUpTo(A, n) == UNION {[1..k -> A] : k \in 0..n}

\* Texts of letters, blanks, newlines and terminators, and shorter texts with
\* the two-byte character.
Texts ==
  SeqsUpTo({Letter, Blank, Newline, Period}, MaxTextLen)
  \cup {s \in SeqsUpTo({Letter, Accented}, MaxTextLen - 2) :
          \E i \in 1..Len(s) : s[i] = Accented}

\* metadata=None (metadata or {} is the empty mapping), or a mapping with a
\* key of the caller's own and a key the chunker writes too.
Metadatas == {<<>>, [source |-> "caller", chunk_method |-> "caller"]}

\* context_markers: lists of non-empty markers; a list may hold a marker
\* twice, and an occurrence of one marker may overlap one of the other.
Markers == {<<Letter, Period>>, <<Period, Letter>>}
MarkerLists == SeqsUpTo(Markers, MaxMarkers)

processorVars == <<inputVars, pc, loop_i, processed_chunks, result, poolVars,
                   histVars, aggVars>>

\* A TextChunker constructed with some chunk_size and overlap, or with the
\* defaults; no call made yet.
InitChunker ==
  /\ ProcessorInit
  /\ max_workers = 1
  /\ \E sizes \in ((0..MaxChunkSize) \X (0..MaxOverlap))
                   \cup {<<DefaultChunkSize, DefaultOverlap>>} :
       /\ chunk_size = sizes[1]
       /\ overlap = sizes[2]
  /\ ChunkerIdle

\* ---- chunk_text -------------------------------------------------------------
\* chunk_text(text, strategy, metadata): _chunk_by_sentence and
\* _chunk_by_paragraph return their list and chunk_text returns its
\* ChunkingResult; the while loops of _chunk_fixed_size and _chunk_by_tokens
\* are begun and run one iteration per step.
chunk_text(txt, st, md) ==
  /\ text' = txt
  /\ strategy' = st
  /\ metadata' = md
  /\ start' = 0
  /\ LET m == Method(st, txt)
         cs == IF m = "sentence"
               THEN chunk_by_sentence(txt, MethodMetadata(st, txt, md))
               ELSE IF m = "paragraph"
                    THEN chunk_by_paragraph(txt, MethodMetadata(st, txt, md))
                    ELSE <<>>
     IN /\ text_chunks' = cs
        /\ IF m \in {"fixed_size", "token_based"}
           THEN /\ chunker_pc' = m
                /\ chunking_result' = chunking_result
           ELSE /\ chunker_pc' = "done"
                /\ chunking_result' = ChunkingResult(cs, st, m, txt, md)
  /\ UNCHANGED <<chunk_size, overlap, processorVars>>

ChunkTextCall ==
  /\ chunker_pc = "idle"
  /\ \E txt \in Texts, st \in Strategies, md \in Metadatas :
       /\ chunk_text(txt, st, md)
       /\ context_markers' = <<>>

\* chunk_text(text, ChunkingStrategy.TOKEN_BASED), metadata=None.
TokenBasedCall ==
  /\ chunker_pc = "idle"
  /\ \E txt \in Texts :
       /\ chunk_text(txt, "token_based", <<>>)
       /\ context_markers' = <<>>

\* One iteration of "while start < len(text)" in _chunk_fixed_size.
FixedSizeStep ==
  /\ chunker_pc = "fixed_size"
  /\ start < Len(text)
  /\ text_chunks' =
       Append(text_chunks,
              FixedSizeChunk(start, Len(text_chunks),
                             MethodMetadata(strategy, text, metadata)))
  /\ start' = FixedSizeNextStart(start)
  /\ UNCHANGED <<chunk_size, overlap, chunker_pc, text, strategy, metadata,
                 context_markers, chunking_result, processorVars>>

\* "while start_token < len(tokens)" holds in _chunk_by_tokens. A loop that
\* has made more windows than there are tokens makes no progress; its further
\* iterations are not followed.
TokenLoopRuns ==
  /\ chunker_pc = "token_based"
  /\ start < Len(Encode(text))
  /\ Len(text_chunks) <= Len(Encode(text))

\* One iteration of the while loop of _chunk_by_tokens.
TokenStep ==
  /\ TokenLoopRuns
  /\ text_chunks' =
       Append(text_chunks,
              TokenChunk(Encode(text), start, Len(text_chunks),
                         MethodMetadata(strategy, text, metadata)))
  /\ start' = TokenNextStart(Encode(text), start)
  /\ UNCHANGED <<chunk_size, overlap, chunker_pc, text, strategy, metadata,
                 context_markers, chunking_result, processorVars>>

\* The while loop has ended: the method returns its list and chunk_text
\* builds and returns the ChunkingResult.
ChunkTextReturn ==
  /\ \/ chunker_pc = "fixed_size" /\ start >= Len(text)
     \/ chunker_pc = "token_based" /\ start >= Len(Encode(text))
  /\ chunking_result' =
       ChunkingResult(text_chunks, strategy, Method(strategy, text), text, metadata)
  /\ chunker_pc' = "done"
  /\ UNCHANGED <<chunk_size, overlap, text, strategy, metadata, context_markers,
                 start, text_chunks, processorVars>>

\* ---- chunk_with_context_preservation ----------------------------------------
\* With no marker found the call is chunk_text(text, ChunkingStrategy.ADAPTIVE);
\* otherwise the chunks are cut at the markers and returned in a
\* ChunkingResult with strategy_used=ADAPTIVE.
ChunkWithContextCall ==
  /\ chunker_pc = "idle"
  /\ \E txt \in Texts, markers \in MarkerLists :
       /\ context_markers' = markers
       /\ IF MarkerPositions(markers, txt) = <<>>
          THEN chunk_text(txt, "adaptive", <<>>)
          ELSE LET cs == ContextLoop(txt, MarkerPositions(markers, txt), 1, 0, <<>>)
               IN /\ text' = txt
                  /\ text_chunks' = cs
                  /\ chunking_result' =
                       [chunks |-> cs, total_chunks |-> Len(cs),
                        strategy_used |-> "adaptive", original_length |-> Len(txt),
                        total_tokens |-> TotalTokens(cs),
                        metadata |-> [context_markers |-> markers],
                        exists |-> TRUE]
                  /\ chunker_pc' = "done"
                  /\ UNCHANGED <<chunk_size, overlap, strategy, metadata, start,
                                 processorVars>>

\* ---- documents: longer texts with paragraphs and sentences ------------------
\* A document of p paragraphs, separated by an empty line, of s sentences
\* each, separated by a blank; a sentence is a word of w letters and its
\* terminator.
ParagraphLen(s, w) == s * (w + 2) - 1
Document(p, s, w) ==
  [i \in 1..(p * (ParagraphLen(s, w) + 2) - 2) |->
     LET in_paragraph == (i - 1) % (ParagraphLen(s, w) + 2)
         in_sentence == in_paragraph % (w + 2)
     IN IF in_paragraph >= ParagraphLen(s, w) THEN Newline
        ELSE IF in_sentence < w THEN Letter
        ELSE IF in_sentence = w THEN Period
        ELSE Blank]

\* The documents, each also with a closing paragraph of one short sentence.
Documents ==
  LET plain == {Document(p, s, w) : p \in 1..MaxParagraphs,
                                    s \in 1..MaxSentences, w \in {1, MaxWordLen}}
  IN plain \cup {d \o <<Newline, Newline, Letter, Period>> : d \in plain}

\* The chunkers the documents are given to: a chunk_size of a few
\* characters, of about a word, or the default, with or without overlap.
InitDocuments ==
  /\ ProcessorInit
  /\ max_workers = 1
  /\ chunk_size \in {2, MaxDocChunkSize, MaxWordLen + 2, DefaultChunkSize}
  /\ overlap \in {0, MaxOverlap}
  /\ ChunkerIdle

\* chunk_text(document, strategy), metadata=None. Only the documents of at
\* most MaxWindows times chunk_size characters are given to the chunker.
ChunkDocumentCall ==
  /\ chunker_pc = "idle"
  /\ \E txt \in Documents, st \in Strategies :
       /\ Len(txt) <= MaxWindows * chunk_size
       /\ chunk_text(txt, st, <<>>)
       /\ context_markers' = <<>>

\* ==== properties ==========================================================
Returned == pc = "done"

\* The entry the single call of processor_func on chunk p must produce.
ExpectedEntry(p) ==
  IF failFirst[p] >= 1
  THEN [original_chunk |-> p, processed_content |-> None, success |-> FALSE,
        error_message |-> Str(Exc(p, 1))]
  ELSE [original_chunk |-> p, processed_content |-> processor_func(p, 1).value,
        success |-> TRUE, error_message |-> None]

\* C1: order preservation. Whatever the order in which the worker tasks
\* finish, the list a process_chunks_parallel call builds has one entry per
\* chunk of its argument and entry i belongs to a chunk with the id of chunk i;
\* so does the result process_chunks_parallel returns to its caller.
C1_OrderPreserved ==
  /\ PoolDone =>
       /\ Len(PoolResult.processed_chunks) = Len(cur)
       /\ \A j \in 1..Len(cur) :
            chunks[PoolResult.processed_chunks[j].original_chunk] = chunks[cur[j]]
  /\ (mode = "parallel" /\ Returned) =>
       /\ Len(result.processed_chunks) = Len(chunks)
       /\ \A i \in 1..Len(chunks) :
            chunks[result.processed_chunks[i].original_chunk] = chunks[i]

\* C1 witness: a parallel call over three chunks has collected every result
\* and builds its list, the tasks having finished in the order 2, 3, 1.
C1_Witness ==
  /\ mode = "parallel"
  /\ PoolDone
  /\ Len(chunks) = 3
  /\ completion = <<2, 3, 1>>
  /\ PoolResult.processed_chunks[1].original_chunk = 1
  /\ PoolResult.processed_chunks[3].original_chunk = 3

\* C2: count invariant. Whenever a ChunkProcessingResult exists (returned by
\* any of the four operations, or between two retry rounds), successful_count
\* is the number of entries with success true and successful_count +
\* failed_count is the number of entries.
C2_CountInvariant ==
  result.exists =>
    LET pcs == result.processed_chunks IN
      /\ result.successful_count + result.failed_count = Len(pcs)
      /\ result.successful_count = Cardinality({i \in 1..Len(pcs) : pcs[i].success})

\* C2 witness: a retry round has ended in which a chunk that had failed
\* succeeded, while another chunk is still failed.
C2_Witness ==
  /\ mode = "retry"
  /\ pc = "retry_loop"
  /\ loop_i >= 1
  /\ \E i, k \in 1..Len(result.processed_chunks) :
       /\ result.processed_chunks[i].success
       /\ started[result.processed_chunks[i].original_chunk] >= 2
       /\ ~result.processed_chunks[k].success

\* C3: a raising processor_func never aborts the batch. The sequential,
\* parallel and streaming operations return one entry per input chunk, in
\* input order; the entry of a chunk whose call raised has success false, no
\* content and the message str(exception), and every other chunk has its
\* output recorded.
C3_FailureIsolated ==
  (Returned /\ mode \in {"sequential", "parallel", "streaming"}) =>
    /\ result.exists
    /\ Len(result.processed_chunks) = Len(chunks)
    /\ \A p \in 1..Len(chunks) : result.processed_chunks[p] = ExpectedEntry(p)

\* C3 witness: a streaming run returned after processor_func raised for the
\* first two chunks and succeeded for the third.
C3_Witness ==
  /\ Returned
  /\ mode = "streaming"
  /\ Len(chunks) = 3
  /\ failFirst[1] = 1 /\ failFirst[2] = 1 /\ failFirst[3] = 0
  /\ ~result.processed_chunks[1].success
  /\ result.processed_chunks[3].success

DistinctIds == \A p, q \in 1..Len(chunks) : chunks[p] = chunks[q] => p = q

\* C4: retry convergence. For chunks with distinct ids and a processor_func
\* that raises on the first k calls for each chunk and succeeds afterwards,
\* process_with_retry with max_retries >= k returns failed_count = 0 and
\* successful_count = len(chunks).
C4_RetryConvergence ==
  (/\ mode = "retry"
   /\ Returned
   /\ DistinctIds
   /\ \E k \in 0..max_retries : \A p \in 1..Len(chunks) : failFirst[p] = k) =>
    /\ result.failed_count = 0
    /\ result.successful_count = Len(chunks)
    /\ \A i \in 1..Len(chunks) : result.processed_chunks[i].success

\* C4 witness: two chunks that each fail twice, max_retries = 2, all succeeded.
C4_Witness ==
  /\ mode = "retry"
  /\ Returned
  /\ chunks = <<1, 2>>
  /\ failFirst = <<2, 2>>
  /\ max_retries = 2
  /\ loop_i = 2
  /\ result.successful_count = 2

\* C5: a chunk whose call raised on the initial run and on every one of the
\* max_retries retry rounds is recorded, at its position of the final result,
\* as failed with the message of its last attempt, and no entry of the result
\* carries the message of one of its earlier attempts.
C5_LastErrorKept ==
  (mode = "retry" /\ Returned) =>
    \A p \in 1..Len(chunks) :
      (started[p] = max_retries + 1 /\ failFirst[p] >= started[p]) =>
        /\ ~result.processed_chunks[p].success
        /\ result.processed_chunks[p].error_message = Str(Exc(p, started[p]))
        /\ \A i \in 1..Len(chunks), c \in 1..max_retries :
             result.processed_chunks[i].error_message # Str(Exc(p, c))

\* The same statement for lists of chunks with pairwise distinct ids.
C5_LastErrorKeptDistinct == DistinctIds => C5_LastErrorKept

\* The batch a chunk position belongs to, and the number of batches.
BatchOf(p) == ((p - 1) \div batch_size) + 1
NumBatches == (Len(chunks) + batch_size - 1) \div batch_size
BatchSize(k) ==
  IF k * batch_size <= Len(chunks) THEN batch_size
  ELSE Len(chunks) - (k - 1) * batch_size

\* C6: process_chunks_streaming runs consecutive batches of batch_size chunks
\* (the last one possibly shorter) strictly one after another; result_callback
\* is called once per batch with the 1-based batch index, after every call of
\* processor_func of that batch has ended and before any call of the next
\* batch begins; the returned list is the concatenation of the batch results,
\* one entry per chunk in input order.
C6_StreamingBatches ==
  mode = "streaming" =>
    /\ pc \in {"submit", "collect"} =>
         /\ loop_i % batch_size = 0
         /\ Len(cur) = BatchSize(BatchIndex(loop_i))
         /\ \A j \in 1..Len(cur) : cur[j] = loop_i + j
    /\ \A p, q \in 1..Len(chunks) :
         (BatchOf(p) < BatchOf(q) /\ started[q] >= 1) => ended[p] >= 1
    /\ result_callback =>
         /\ Len(batchLog) <= NumBatches
         /\ Returned => Len(batchLog) = NumBatches
         /\ \A k \in 1..Len(batchLog) :
              /\ batchLog[k].index = k
              /\ batchLog[k].batch_result.processed_chunks =
                   [j \in 1..BatchSize(k) |-> ExpectedEntry((k - 1) * batch_size + j)]
              /\ \A p \in 1..Len(chunks) : BatchOf(p) = k => ended[p] = 1
         /\ \A p \in 1..Len(chunks) :
              started[p] >= 1 => Len(batchLog) >= BatchOf(p) - 1
    /\ Returned =>
         /\ Len(result.processed_chunks) = Len(chunks)
         /\ \A i \in 1..Len(chunks) : result.processed_chunks[i].original_chunk = i
         /\ result_callback =>
              \A i \in 1..Len(chunks) :
                result.processed_chunks[i] =
                  batchLog[BatchOf(i)].batch_result.processed_chunks[
                    i - (BatchOf(i) - 1) * batch_size]

\* C6 witness: three chunks streamed in batches of two (a full batch and a
\* shorter last one) with a result_callback, returned.
C6_Witness ==
  /\ mode = "streaming"
  /\ Returned
  /\ Len(chunks) = 3
  /\ batch_size = 2
  /\ result_callback
  /\ Len(batchLog) = 2
  /\ Len(batchLog[2].batch_result.processed_chunks) = 1

\* The progress_callback calls of a process_chunks_parallel call: one per
\* collected future, numbered 1, 2, ... with total len(chunks), each passing
\* the ProcessedChunk of a work item whose processor_func call has ended.
ProgressCalls ==
  /\ pc = "collect" => Len(progressLog) = completed_count
  /\ Returned => Len(progressLog) = Len(chunks)
  /\ \A k \in 1..Len(progressLog) :
       /\ progressLog[k].count = k
       /\ progressLog[k].total = Len(chunks)
       /\ ended[progressLog[k].chunk.original_chunk] >= 1
       /\ progressLog[k].chunk = ExpectedEntry(progressLog[k].chunk.original_chunk)

\* C7 as stated: in process_chunks_parallel the progress_callback is called
\* once per completed task, with counts 1..n and total n, each time for a task
\* that has finished, and the calls follow the order in which the tasks finished.
C7_ProgressInCompletionOrder ==
  (mode = "parallel" /\ progress_callback) =>
    /\ ProgressCalls
    /\ pc = "collect" =>
         \A k \in 1..Len(progressLog) :
           progressLog[k].chunk.original_chunk = cur[completion[k]]

\* C7 amended: as above, except for the order: the tasks that had already
\* finished when the collection loop (as_completed) was entered are reported
\* first, in any order; the calls for the other tasks follow finishing order.
C7_ProgressOrderAmended ==
  (mode = "parallel" /\ progress_callback) =>
    /\ ProgressCalls
    /\ pc = "collect" =>
         \A k \in 1..Len(progressLog) :
           IF k <= early
           THEN \E m \in 1..early :
                  progressLog[k].chunk.original_chunk = cur[completion[m]]
           ELSE progressLog[k].chunk.original_chunk = cur[completion[k]]
    /\ \A k, l \in 1..Len(progressLog) :
         progressLog[k].chunk.original_chunk = progressLog[l].chunk.original_chunk
           => k = l

\* C7 witness: two tasks had finished before collection began and were
\* reported in the reverse of their finishing order; the third task finished
\* later and was reported last.
C7_Witness ==
  /\ mode = "parallel"
  /\ progress_callback
  /\ PoolDone
  /\ Len(chunks) = 3
  /\ early = 2
  /\ progressLog[1].chunk.original_chunk = cur[completion[2]]
  /\ progressLog[2].chunk.original_chunk = cur[completion[1]]
  /\ progressLog[3].chunk.original_chunk = cur[completion[3]]

\* Number of chunk positions up to p whose processor_func call has begun.
RECURSIVE StartedUpTo(_)
StartedUpTo(p) ==
  IF p = 0 THEN 0 ELSE (IF started[p] >= 1 THEN 1 ELSE 0) + StartedUpTo(p - 1)

\* C8: process_chunks_sequential calls processor_func once per chunk, in
\* input order, and calls progress_callback(i + 1, len(chunks), result_i)
\* after the call for chunk i has ended and before the call for chunk i + 1
\* begins, whether the call succeeded or raised.
C8_SequentialOrder ==
  mode = "sequential" =>
    /\ \A p \in 1..Len(chunks) :
         /\ started[p] <= 1
         /\ ended[p] = started[p]
         /\ started[p] = 1 => \A q \in 1..p : started[q] = 1
    /\ Returned => \A p \in 1..Len(chunks) : started[p] = 1
    /\ progress_callback =>
         /\ Len(progressLog) <= StartedUpTo(Len(chunks))
         /\ Len(progressLog) >= StartedUpTo(Len(chunks)) - 1
         /\ Returned => Len(progressLog) = Len(chunks)
         /\ \A k \in 1..Len(progressLog) :
              progressLog[k] =
                [count |-> k, total |-> Len(chunks), chunk |-> ExpectedEntry(k)]

\* C8 witness: a sequential run over three chunks, the second of which
\* raised, returned after three progress_callback calls.
C8_Witness ==
  /\ mode = "sequential"
  /\ Returned
  /\ progress_callback
  /\ failFirst = <<0, 1, 0>>
  /\ Len(progressLog) = 3
  /\ ~progressLog[2].chunk.success

\* Number of processor_func calls that have begun and not ended.
RECURSIVE InFlight(_)
InFlight(p) ==
  IF p = 0 THEN 0 ELSE (started[p] - ended[p]) + InFlight(p - 1)

\* C9: at every moment the number of processor_func calls that have begun
\* and not yet ended is at most max_workers.
C9_BoundedConcurrency == InFlight(Len(chunks)) <= max_workers

\* C9 witness: max_workers = 2 calls are in flight while a third chunk waits
\* in the queue.
C9_Witness ==
  /\ mode = "parallel"
  /\ max_workers = 2
  /\ InFlight(Len(chunks)) = 2
  /\ Queued # {}

\* C10: when aggregation_func raises inside aggregate_results, no exception
\* reaches the caller and the result object (aggregated_result,
\* processed_chunks, successful_count, failed_count) is left as it was.
C10_AggregationFailureIsolated ==
  [][(aggregations' = aggregations + 1 /\ aggregation_func' = "raise")
       => (~raised' /\ result' = result)]_vars

\* C10 witness: aggregation_func raised (it was called: there are successful
\* results) after an earlier aggregation had stored a value, which is kept.
C10_Witness ==
  /\ aggregations = 2
  /\ aggregation_func = "raise"
  /\ SuccessfulResults(result.processed_chunks) # <<>>
  /\ result.aggregated_result # None
  /\ ~raised

\* C11 as stated: for an aggregation_func that does not raise,
\* aggregate_results calls it on the contents of the entries with success
\* true and content not None, in processed_chunks order, and stores what it
\* returns in aggregated_result (replacing an earlier value); nothing else of
\* the result changes.
C11_AggregationStoresValue ==
  [][(aggregations' = aggregations + 1 /\ aggregation_func' # "raise")
       => result' =
            [result EXCEPT !.aggregated_result =
               CallAggregation(aggregation_func',
                               SuccessfulResults(result.processed_chunks)).value]]_vars

\* The same statement for results with at least one successful entry whose
\* content is not None.
C11_AggregationStoresValueNonEmpty ==
  [][(/\ aggregations' = aggregations + 1
      /\ aggregation_func' # "raise"
      /\ \E i \in 1..Len(result.processed_chunks) :
           /\ result.processed_chunks[i].success
           /\ result.processed_chunks[i].processed_content # None)
       => result' =
            [result EXCEPT !.aggregated_result =
               CallAggregation(aggregation_func',
                               SuccessfulResults(result.processed_chunks)).value]]_vars

\* C12: when result_callback raises for batch k, process_chunks_streaming is
\* left by that exception: it returns no result, result_callback is not
\* called again, and processor_func is called for no chunk of a later batch.
C12_CallbackExceptionPropagates ==
  (/\ mode = "streaming"
   /\ result_callback
   /\ callback_raises >= 1
   /\ Len(batchLog) >= callback_raises) =>
    /\ pc = "raised"
    /\ ~result.exists
    /\ Len(batchLog) = callback_raises
    /\ \A p \in 1..Len(chunks) : BatchOf(p) > callback_raises => started[p] = 0

\* C12 witness: three chunks in batches of one; result_callback raised for
\* batch 2, after the calls for chunks 1 and 2 and before any call for chunk 3.
C12_Witness ==
  /\ mode = "streaming"
  /\ pc = "raised"
  /\ Len(chunks) = 3
  /\ batch_size = 1
  /\ callback_raises = 2
  /\ Len(batchLog) = 2
  /\ ended[2] = 1
  /\ started[3] = 0

\* ---- TextChunker -------------------------------------------------------------
\* chunk_text was called (by the caller or by chunk_with_context_preservation).
ChunkTextCalled == strategy # "none"
ChunkingReturned == chunker_pc = "done"

\* the concatenation of the contents of a list of chunks
RECURSIVE Contents(_)
Contents(cs) ==
  IF cs = <<>> THEN <<>>
  ELSE IF Len(cs) = 1 THEN cs[1].content
  ELSE Contents(SubSeq(cs, 1, Len(cs) \div 2))
       \o Contents(SubSeq(cs, Len(cs) \div 2 + 1, Len(cs)))

\* the characters of s that are not whitespace, in order
NotSpace(c) == ~IsSpace(c)
NonSpace(s) == SelectSeq(s, NotSpace)

\* C13 as stated: with chunk_size >= 1 no chunk made by a strategy method or
\* by chunk_with_context_preservation has empty content.
C13_NoEmptyContent ==
  chunk_size >= 1 =>
    \A i \in 1..Len(text_chunks) : Len(text_chunks[i].content) >= 1

\* The same statement for the fixed-size, paragraph and token-based methods.
C13_NoEmptyContentOtherMethods ==
  (/\ chunk_size >= 1
   /\ ChunkTextCalled
   /\ Method(strategy, text) \in {"fixed_size", "paragraph", "token_based"}) =>
    \A i \in 1..Len(text_chunks) : Len(text_chunks[i].content) >= 1

\* C14 as stated: a non-empty text shorter than chunk_size chunked with the
\* fixed-size strategy gives exactly one chunk, which holds the text (up to
\* whitespace at its ends), whatever the overlap.
C14_ShortTextOneChunk ==
  (/\ ChunkingReturned
   /\ strategy = "fixed_size"
   /\ text # <<>>
   /\ Len(text) < chunk_size) =>
    /\ chunking_result.total_chunks = 1
    /\ Strip(chunking_result.chunks[1].content) = Strip(text)

\* The same statement for overlap = 0 or a text of one character.
C14_ShortTextOneChunkNoOverlap ==
  (overlap = 0 \/ Len(text) = 1) => C14_ShortTextOneChunk

\* C15 as stated: after chunk_text with strategy ADAPTIVE, strategy_used is
\* the method _chunk_adaptive chose (paragraph, sentence or token_based).
C15_StrategyUsedIsChosen ==
  (ChunkingReturned /\ strategy = "adaptive") =>
    /\ chunking_result.strategy_used \in {"paragraph", "sentence", "token_based"}
    /\ chunking_result.strategy_used = AdaptiveChoice(text)

\* start_index grows strictly from each chunk to the next.
StartIndexGrows ==
  \A i \in 1..(Len(text_chunks) - 1) :
    text_chunks[i + 1].start_index > text_chunks[i].start_index

\* C16 as stated: with chunk_size >= 1 and any overlap, the chunks made by
\* _chunk_fixed_size and by _chunk_by_tokens have strictly growing start_index.
C16_ForwardProgress ==
  (/\ chunk_size >= 1
   /\ ChunkTextCalled
   /\ Method(strategy, text) \in {"fixed_size", "token_based"}) => StartIndexGrows

\* The same statement for _chunk_fixed_size alone.
C16_ForwardProgressFixedSize ==
  (/\ chunk_size >= 1
   /\ ChunkTextCalled
   /\ Method(strategy, text) = "fixed_size") => StartIndexGrows

\* C17 as stated: with overlap = 0 (and chunk_size >= 1) the contents of the
\* chunks of the fixed-size, sentence, paragraph and token-based strategies,
\* concatenated, have the non-whitespace characters of the text, in order; for
\* fixed-size the concatenation is the text.
C17_Coverage ==
  (/\ ChunkingReturned
   /\ overlap = 0
   /\ chunk_size >= 1
   /\ strategy \in {"fixed_size", "sentence", "paragraph", "token_based"}) =>
    /\ NonSpace(Contents(chunking_result.chunks)) = NonSpace(text)
    /\ strategy = "fixed_size" => Contents(chunking_result.chunks) = text

\* The same statement for the three character-based strategies.
C17_CoverageCharacterBased ==
  strategy # "token_based" => C17_Coverage

\* C18 as stated: with chunk_size <= 0 a call neither returns a
\* ChunkingResult nor stays in a loop whose iterations change nothing but the
\* list of chunks.
C18_ConfigurationErrorSurfaced ==
  chunk_size <= 0 =>
    /\ ~chunking_result.exists
    /\ ~(/\ chunker_pc = "token_based"
         /\ start < Len(Encode(text))
         /\ TokenNextStart(Encode(text), start) = start)

\* C19: chunk_text on the empty text, for every strategy, chunk_size and
\* overlap, makes no chunk, enters no loop iteration and returns a
\* ChunkingResult with chunks = [] and total_chunks = 0.
C19_EmptyTextNoChunks ==
  (ChunkTextCalled /\ text = <<>>) =>
    /\ text_chunks = <<>>
    /\ ~ChunkingReturned =>
         /\ ENABLED ChunkTextReturn
         /\ ~ENABLED FixedSizeStep
         /\ ~ENABLED TokenStep
    /\ ChunkingReturned =>
         /\ chunking_result.exists
         /\ chunking_result.chunks = <<>>
         /\ chunking_result.total_chunks = 0
         /\ chunking_result.original_length = 0

\* C19 witness: chunk_text("", SENTENCE) has returned a result without chunks.
C19_Witness ==
  /\ ChunkingReturned
  /\ text = <<>>
  /\ strategy = "sentence"
  /\ chunking_result.exists
  /\ chunking_result.total_chunks = 0

\* C20 as stated: every chunk chunk_text produces has every key of the
\* caller's metadata, with the caller's value.
C20_CallerMetadataKept ==
  ChunkTextCalled =>
    \A i \in 1..Len(text_chunks) : \A k \in DOMAIN metadata :
      /\ k \in DOMAIN text_chunks[i].metadata
      /\ text_chunks[i].metadata[k] = metadata[k]

\* The same statement for the keys the chunker does not write itself.
C20_CallerMetadataKeptOwnKeys ==
  ChunkTextCalled =>
    \A i \in 1..Len(text_chunks) :
      \A k \in DOMAIN metadata \ {"chunk_method", "is_complete_paragraph",
                                  "large_paragraph", "adaptive_choice"} :
        /\ k \in DOMAIN text_chunks[i].metadata
        /\ text_chunks[i].metadata[k] = metadata[k]

\* 0 <= start_index < end_index <= len(text) for every chunk made so far
IndexesInText ==
  \A i \in 1..Len(text_chunks) :
    /\ 0 <= text_chunks[i].start_index
    /\ text_chunks[i].start_index < text_chunks[i].end_index
    /\ text_chunks[i].end_index <= Len(text)

\* C21 as stated: every chunk of the fixed-size, sentence and paragraph
\* strategies (a paragraph cut into sentence sub-chunks included) has
\* 0 <= start_index < end_index <= len(original_text).
C21_IndexBounds ==
  (/\ ChunkTextCalled
   /\ Method(strategy, text) \in {"fixed_size", "sentence", "paragraph"}) =>
    IndexesInText

\* The same statement for a chunker with chunk_size >= 1.
C21_IndexBoundsPositiveSize ==
  chunk_size >= 1 => C21_IndexBounds

\* C22: within one chunk_text run the ids of the chunks are pairwise
\* distinct, for every strategy; the paragraph strategy, which gives whole
\* paragraphs the ids para_chunk_<n> and sentence sub-chunks the ids
\* para_chunk_<n>_<i> and moves n on by the number of sub-chunks, never gives
\* one id twice.
C22_IdsDistinct ==
  ChunkTextCalled =>
    \A i, j \in 1..Len(text_chunks) :
      i # j => text_chunks[i].id # text_chunks[j].id

\* C22 witness: the paragraph strategy has returned a list in which a large
\* paragraph was cut into two or more sub-chunks para_chunk_<n>_<i> and the
\* paragraph after it is the whole-paragraph chunk para_chunk_<n + 2>.
C22_Witness ==
  /\ ChunkingReturned
  /\ strategy = "paragraph"
  /\ \E i \in 2..(Len(text_chunks) - 1) :
       /\ Len(text_chunks[i].id) = 3
       /\ text_chunks[i].id[3] = 1
       /\ text_chunks[i + 1].id = <<"para_chunk", text_chunks[i].id[2] + 2>>

\* chunk_with_context_preservation found markers and cut the text at them.
ContextCut == ChunkingReturned /\ MarkerPositions(context_markers, text) # <<>>

\* the indexes (0-based) at which marker m occurs in the text
Occurrences(m) ==
  {i \in 0..(Len(text) - Len(m)) : Slice(text, i, i + Len(m)) = m}

\* some chunk starts at index i with the whole marker m
StartsChunk(i, m) ==
  \E k \in 1..Len(text_chunks) :
    /\ text_chunks[k].start_index = i
    /\ Slice(text_chunks[k].content, 0, Len(m)) = m

\* C23 as stated: after chunk_with_context_preservation every occurrence of
\* every configured marker starts a chunk: some chunk has the occurrence's
\* start as start_index and a content that begins with the whole marker.
C23_MarkerStartsChunk ==
  ContextCut =>
    \A n \in 1..Len(context_markers) :
      \A i \in Occurrences(context_markers[n]) :
        StartsChunk(i, context_markers[n])

\* no two matches of the markers share a character
MatchesDisjoint ==
  LET mp == MarkerPositions(context_markers, text)
  IN \A a, b \in 1..Len(mp) : a < b => mp[a].end <= mp[b].start

\* The same statement for marker lists whose matches do not overlap.
C23_MarkerStartsChunkDisjoint ==
  MatchesDisjoint => C23_MarkerStartsChunk

\* ---- process_with_retry: the rounds ------------------------------------------
\* the positions of the entries of pcs with success = false, in order
FailedPositions(pcs) ==
  LET EntryFailed(i) == ~pcs[i].success
  IN SelectSeq([i \in 1..Len(pcs) |-> i], EntryFailed)

\* While process_with_retry has its result: a running round runs exactly the
\* chunks whose entry is failed, no round runs or can begin once no entry is
\* failed, and no chunk has had more than 1 + max_retries calls.
RetryRoundsExact ==
  (mode = "retry" /\ result.exists) =>
    /\ cur # <<>> => cur = FailedPositions(result.processed_chunks)
    /\ FailedPositions(result.processed_chunks) = <<>> =>
         (cur = <<>> /\ ~ENABLED RetryRound)
    /\ \A p \in 1..Len(chunks) : started[p] <= 1 + max_retries

\* A step leaves a chunk whose entry is success = true alone: no call of
\* processor_func on it begins and its entry stays as it is.
SuccessKept ==
  (mode = "retry" /\ result.exists) =>
    \A p \in 1..Len(chunks) :
      result.processed_chunks[p].success =>
        /\ started'[p] = started[p]
        /\ result'.processed_chunks[p] = result.processed_chunks[p]

\* C24 as stated: in process_with_retry each retry round re-runs
\* processor_func on exactly the chunks whose current entry is failed; a chunk
\* whose entry is success = true is never passed to processor_func again and
\* its entry is never replaced; the loop stops as soon as no entry is failed;
\* processor_func is called at most 1 + max_retries times for any one chunk.
C24_RetryRounds == [](RetryRoundsExact) /\ [][SuccessKept]_vars

\* The same statement for lists of chunks with pairwise distinct ids.
C24_RetryRoundsDistinct ==
  [](DistinctIds => RetryRoundsExact) /\ [][DistinctIds => SuccessKept]_vars

\* C25 as stated: after process_with_retry on any list of chunks, two chunks
\* with the same id included, processed_chunks[i].original_chunk is the i-th
\* chunk and the entry at position i was made by a call of processor_func on
\* that chunk: no retry outcome of one chunk is put at another chunk's position.
C25_OutcomeOfOwnChunk ==
  (mode = "retry" /\ Returned) =>
    \A i \in 1..Len(chunks) :
      /\ result.processed_chunks[i].original_chunk = i
      /\ \E c \in 1..started[i] :
           result.processed_chunks[i] = process_single_chunk(i, c)

\* The same statement for lists of chunks with pairwise distinct ids.
C25_OutcomeOfOwnChunkDistinct == DistinctIds => C25_OutcomeOfOwnChunk

\* what the claim compares of an entry: the id of its chunk, success,
\* processed_content and error_message
Outcome(e) ==
  <<chunks[e.original_chunk], e.success, e.processed_content, e.error_message>>

\* C26: for a processor_func whose outcome depends on the chunk alone,
\* process_chunks_sequential, process_chunks_parallel (every max_workers and
\* interleaving) and process_chunks_streaming (every batch_size) return the
\* same list of (original_chunk.id, success, processed_content, error_message),
\* the one the outcomes of the chunks give in the order of the argument, and
\* the same successful_count and failed_count.
C26_SameOutcomes ==
  (Returned /\ mode \in {"sequential", "parallel", "streaming"}) =>
    /\ [i \in 1..Len(result.processed_chunks) |->
          Outcome(result.processed_chunks[i])]
         = [i \in 1..Len(chunks) |-> Outcome(ExpectedEntry(i))]
    /\ result.successful_count
         = Cardinality({i \in 1..Len(chunks) : failFirst[i] = 0})
    /\ result.failed_count
         = Cardinality({i \in 1..Len(chunks) : failFirst[i] >= 1})

\* C26 witness: process_chunks_streaming has returned for three chunks in
\* batches of two with two workers, the first and the third chunk having failed.
C26_Witness ==
  /\ mode = "streaming"
  /\ Returned
  /\ Len(chunks) = 3
  /\ batch_size = 2
  /\ max_workers = 2
  /\ failFirst = <<1, 0, 1>>
  /\ result.failed_count = 2
  /\ result.processed_chunks[2].success

\* ---- sentence strategy ----------------------------------------------------------
\* the sentences ss joined by single blanks
RECURSIVE Join(_)
Join(ss) ==
  IF ss = <<>> THEN <<>>
  ELSE IF Len(ss) = 1 THEN ss[1]
  ELSE ss[1] \o <<Blank>> \o Join(Tail(ss))

\* The chunks cs hold the sentences ss, whole and in order: the first chunk
\* is the first k sentences (up to whitespace at its ends), k >= 2 only when
\* they fit in chunk_size together, and another chunk follows only when the
\* next sentence would not have fitted as well; the other chunks hold the
\* other sentences in the same way, and no sentence is left over.
RECURSIVE SentenceGroups(_, _)
SentenceGroups(ss, cs) ==
  IF cs = <<>> THEN ss = <<>>
  ELSE \E k \in 1..Len(ss) :
         LET buffer == Join(SubSeq(ss, 1, k)) IN
         /\ Head(cs).content = Strip(buffer)
         /\ k >= 2 => Len(buffer) <= chunk_size
         /\ Len(Head(cs).content) > chunk_size => k = 1
         /\ Len(cs) >= 2 =>
              /\ k < Len(ss)
              /\ Len(buffer) + 1 + Len(ss[k + 1]) > chunk_size
         /\ SentenceGroups(SubSeq(ss, k + 1, Len(ss)), Tail(cs))

\* The sentences of a text: its pieces between the runs of whitespace that
\* follow a terminator. The empty piece after such a run at the end of the
\* text, and the one piece of the empty text, are no sentences.
NotEmpty(piece) == piece # <<>>
SentencesOf(txt) == SelectSeq(SplitAfterTerminator(txt, 1), NotEmpty)

\* C27: sentence strategy. Every sentence of the text lies whole in exactly
\* one chunk and the sentences keep their order; the buffer is flushed
\* exactly when the next sentence would make it longer than chunk_size, so a
\* chunk of two or more sentences is not longer than chunk_size and a longer
\* chunk holds one sentence; the last buffer is flushed.
C27_SentencesWhole ==
  (ChunkingReturned /\ strategy = "sentence") =>
    SentenceGroups(SentencesOf(text), chunking_result.chunks)

\* C27 witness: "a. a. a." with chunk_size 5 has given the chunks "a. a."
\* (two sentences, the third would not fit) and "a.".
C27_Witness ==
  /\ ChunkingReturned
  /\ strategy = "sentence"
  /\ text = Document(1, 3, 1)
  /\ chunk_size = 5
  /\ Len(chunking_result.chunks) = 2
  /\ chunking_result.chunks[1].content = <<Letter, Period, Blank, Letter, Period>>
  /\ chunking_result.chunks[2].content = <<Letter, Period>>

\* ---- adaptive strategy ----------------------------------------------------------
\* The strategy the stated rules give for the text, with P paragraphs and S
\* sentences found by the analysis of the text.
StatedChoice ==
  LET P == Len(AnalysisParagraphs(text))
      S == Len(AnalysisSentences(text))
  IN IF /\ P > 1
        /\ 100 * P < Len(text)
        /\ 2 * SumLen(AnalysisParagraphs(text)) < 3 * chunk_size * P
     THEN "paragraph"
     ELSE IF S > 5 /\ 2 * SumLen(AnalysisSentences(text)) < chunk_size * S
          THEN "sentence"
          ELSE "token_based"

\* what a strategy produces on the text, called with the caller's metadata
Produces(st) ==
  IF st = "paragraph" THEN chunk_by_paragraph(text, metadata)
  ELSE IF st = "sentence" THEN chunk_by_sentence(text, metadata)
  ELSE chunk_by_tokens(Encode(text), 0, <<>>, metadata)

\* a chunk without the key adaptive_choice of its metadata
WithoutChoice(c) ==
  [c EXCEPT !.metadata = [k \in DOMAIN @ \ {"adaptive_choice"} |-> @[k]]]

\* C28: adaptive dispatch. The adaptive strategy chooses paragraph, sentence
\* or token-based by the stated rules, tried in that order; every chunk it
\* returns has the chosen strategy under adaptive_choice in its metadata and
\* is, that key apart, the chunk the chosen strategy produces on the text.
C28_AdaptiveDispatch ==
  (ChunkingReturned /\ strategy = "adaptive") =>
    /\ \A i \in 1..Len(chunking_result.chunks) :
         /\ "adaptive_choice" \in DOMAIN chunking_result.chunks[i].metadata
         /\ chunking_result.chunks[i].metadata.adaptive_choice = StatedChoice
    /\ [i \in 1..Len(chunking_result.chunks) |->
          WithoutChoice(chunking_result.chunks[i])] = Produces(StatedChoice)

\* C28 witness: a document of two paragraphs and more than 200 characters, in
\* which the paragraph rule and the sentence rule both apply, was chunked by
\* paragraph.
C28_Witness ==
  /\ ChunkingReturned
  /\ strategy = "adaptive"
  /\ Len(AnalysisParagraphs(text)) = 2
  /\ Len(text) > 200
  /\ HasClearSentences(text) /\ SentencesShort(text)
  /\ Len(chunking_result.chunks) = 2
  /\ chunking_result.chunks[1].metadata.adaptive_choice = "paragraph"
  /\ chunking_result.chunks[1].metadata.chunk_method = "paragraph"

\* The adaptive strategy has chosen the sentence strategy, the paragraph
\* rule not applying.
AdaptiveSentenceChosen ==
  /\ ChunkingReturned
  /\ strategy = "adaptive"
  /\ text_chunks # <<>>
  /\ text_chunks[1].metadata.adaptive_choice = "sentence"

\* The adaptive strategy has chosen the token-based strategy although the
\* text has more than one paragraph and fewer than len(text) / 100.
AdaptiveTokenChosen ==
  /\ ChunkingReturned
  /\ strategy = "adaptive"
  /\ HasClearParagraphs(text)
  /\ text_chunks # <<>>
  /\ text_chunks[1].metadata.adaptive_choice = "token_based"

\* ---- C29 ----------------------------------------------------------------------
\* The token window that chunk k of the list was cut from begins at
\* WindowStart(k): the first at 0, each later one at the end of the window
\* before it less min(overlap, half its length).
RECURSIVE WindowStart(_)
WindowStart(k) ==
  IF k = 1 THEN 0
  ELSE LET before == WindowStart(k - 1)
           length == text_chunks[k - 1].token_count
       IN before + length - Min(overlap, length \div 2)

WindowEnd(k) == WindowStart(k) + text_chunks[k].token_count

InTokenLoop == chunker_pc = "token_based" /\ chunk_size >= 1

TokenBasedReturned ==
  /\ ChunkingReturned
  /\ context_markers = <<>>
  /\ Method(strategy, text) = "token_based"
  /\ chunk_size >= 1

\* Each chunk is the window of the tokens that begins where the rule says, and
\* holds at least one and at most chunk_size tokens; the loop has made no more
\* windows than it has passed tokens.
WindowsBounded ==
  (InTokenLoop \/ TokenBasedReturned) =>
    /\ \A k \in 1..Len(text_chunks) :
         /\ text_chunks[k].token_count >= 1
         /\ text_chunks[k].token_count <= chunk_size
         /\ WindowEnd(k) <= Len(Encode(text))
         /\ text_chunks[k].content =
              Decode(Slice(Encode(text), WindowStart(k), WindowEnd(k)))
    /\ Len(text_chunks) <= Len(Encode(text))
    /\ InTokenLoop => Len(text_chunks) <= start

\* When the loop has ended every token lies in some window.
TokensCovered ==
  TokenBasedReturned =>
    \A t \in 1..Len(Encode(text)) :
      \E k \in 1..Len(text_chunks) : WindowStart(k) < t /\ t <= WindowEnd(k)

\* One iteration moves the start to end - min(overlap, (end - start) // 2),
\* which is beyond the start of the window just made.
WindowAdvances ==
  (InTokenLoop /\ start < Len(Encode(text))) =>
    LET end == Min(start + chunk_size, Len(Encode(text)))
    IN /\ Len(text_chunks') = Len(text_chunks) + 1
       /\ start' = end - Min(overlap, (end - start) \div 2)
       /\ start' > start
       /\ start' <= end

\* C29: token-based chunking with chunk_size >= 1 and overlap >= 0 ends after
\* finitely many windows: after a window [start, end) the next one starts at
\* end - min(overlap, (end - start) // 2), strictly beyond start; each window
\* has at most chunk_size tokens, each token is in some window, and a loop
\* that is run reaches its return.
C29_TokenLoopTerminates ==
  /\ [](WindowsBounded /\ TokensCovered)
  /\ [][WindowAdvances]_vars
  /\ (InTokenLoop ~> ChunkingReturned)

\* C29 witness: a token-based call with an overlap has returned three windows
\* or more, the second of which begins inside the first.
C29_Witness ==
  /\ TokenBasedReturned
  /\ overlap >= 1
  /\ Len(text_chunks) >= 3
  /\ WindowStart(2) < WindowEnd(1)

\* ---- C30 ----------------------------------------------------------------------
\* The chunks the fixed-size strategy has made of text so far.
FixedSizeChunks == IF strategy = "fixed_size" THEN text_chunks ELSE <<>>

\* text.rfind(' ') over the window [start_index, start_index + chunk_size) of
\* chunk c: the position of the last blank of the window, or -1.
LastSpaceInWindow(c) == RFind(text, c.start_index, c.start_index + chunk_size)

EndsAtWhitespace(c) == IsSpace(text[c.end_index + 1])

EndsAtLastSpace(c) ==
  LastSpaceInWindow(c) # -1 /\ c.end_index = LastSpaceInWindow(c)

\* C30 as stated: a fixed-size chunk that ends before the end of the text ends
\* where the text has whitespace, or at the last blank of its window, or its
\* window holds no blank at all.
C30_NoAvoidableWordCut ==
  \A k \in 1..Len(FixedSizeChunks) :
    LET c == FixedSizeChunks[k]
    IN c.end_index < Len(text) =>
         \/ EndsAtWhitespace(c)
         \/ EndsAtLastSpace(c)
         \/ LastSpaceInWindow(c) = -1

\* C30, amended: a fixed-size chunk that ends before the end of the text ends
\* where the text has whitespace, or at the last blank of its window, or its
\* window holds no blank after its first character.
C30_NoAvoidableWordCutAmended ==
  \A k \in 1..Len(FixedSizeChunks) :
    LET c == FixedSizeChunks[k]
    IN c.end_index < Len(text) =>
         \/ EndsAtWhitespace(c)
         \/ EndsAtLastSpace(c)
         \/ LastSpaceInWindow(c) <= c.start_index

\* C30 witness: a returned fixed-size call moved the end of one chunk back
\* from a letter to the last blank of its window, and cut another chunk, whose
\* only blank is its first character, inside a word.
C30_Witness ==
  /\ ChunkingReturned
  /\ \E k \in 1..Len(FixedSizeChunks) :
       LET c == FixedSizeChunks[k]
       IN /\ c.end_index < c.start_index + chunk_size
          /\ c.end_index < Len(text)
          /\ ~IsSpace(text[c.start_index + chunk_size + 1])
          /\ EndsAtLastSpace(c)
  /\ \E k \in 1..Len(FixedSizeChunks) :
       LET c == FixedSizeChunks[k]
       IN /\ c.end_index < Len(text)
          /\ ~EndsAtWhitespace(c)
          /\ LastSpaceInWindow(c) = c.start_index

Next ==
  \/ SequentialCall
  \/ SequentialTransform
  \/ SequentialProgress
  \/ SequentialReturn
  \/ ParallelCall
  \/ Submit
  \/ WorkerStart
  \/ WorkerFinish
  \/ AsCompleted
  \/ Collect
  \/ ParallelReturn
  \/ StreamingCall
  \/ StreamingBatch
  \/ StreamingBatchReturn
  \/ StreamingReturn
  \/ RetryCall
  \/ RetryInitialReturn
  \/ RetryRound
  \/ RetryRoundReturn
  \/ RetryReturn
  \/ Aggregate

Spec == Init /\ [][Next]_vars

NextChunker ==
  \/ ChunkTextCall
  \/ FixedSizeStep
  \/ TokenStep
  \/ ChunkTextReturn
  \/ ChunkWithContextCall

SpecChunker == InitChunker /\ [][NextChunker]_vars

NextDocuments ==
  \/ ChunkDocumentCall
  \/ FixedSizeStep
  \/ TokenStep
  \/ ChunkTextReturn

SpecDocuments == InitDocuments /\ [][NextDocuments]_vars

\* The token-based strategy alone. chunk_text runs _chunk_by_tokens to its end
\* once called: an iteration of the loop that can be made is made, and so is
\* the return after the loop. The fairness of TokenStep is weak fairness
\* written out, TokenStep being possible exactly when TokenLoopRuns holds (an
\* iteration always lengthens the list of chunks).
NextTokenBased ==
  \/ TokenBasedCall
  \/ TokenStep
  \/ ChunkTextReturn

SpecTokenBased ==
  /\ InitChunker
  /\ [][NextTokenBased]_vars
  /\ ([]<>(~TokenLoopRuns) \/ []<><<TokenStep>>_vars)
  /\ WF_vars(ChunkTextReturn)

====
